---- MODULE Spec2Model ----
(***************************************************************************)
(* A model of the hr_tooling applicant-tracking API: the in-memory record  *)
(* store (src/src/db/crud.py), the scoring and content helpers             *)
(* (src/src/ai/ai_services.py) and the request handlers (src/main.py).     *)
(*                                                                         *)
(* Strings the code inspects (lower(), strip(), `in`) are sequences of     *)
(* one-character strings; strings the code only stores or compares are     *)
(* TLA+ strings.  Python dicts are functions whose DOMAIN is the key set.  *)
(***************************************************************************)
EXTENDS Integers, Sequences, FiniteSets, TLC

VARIABLES
    DATABASE,     \* crud.DATABASE: collection name -> (id -> record)
    clock,        \* what datetime.now() returns, in hours since start-up
    get_gemini_response,  \* TRUE when the optional import succeeded
    request,      \* the request handled last
    response,     \* its response
    cv_text,      \* the argument handed to score_cv (scoring specification)
    score_log,    \* the calls of score_cv made so far: {[gemini, result]}
    oa_args,      \* the arguments of generate_assessment_questions
    oa_questions, \* what it returned
    pc,           \* the step the demo client is at
    demo,         \* what the demo client remembers of the responses
    threads       \* the register requests in progress: worker thread -> its
                  \* position, its request and its response

api_vars == <<DATABASE, clock, get_gemini_response, request, response>>
score_vars == <<cv_text, score_log>>
oa_vars == <<oa_args, oa_questions>>
\* What a request handler never touches.
probe_vars == <<cv_text, score_log, oa_args, oa_questions, pc, demo, threads>>
client_vars == <<pc, demo, threads>>
vars == <<DATABASE, clock, get_gemini_response, request, response,
          cv_text, score_log, oa_args, oa_questions, pc, demo, threads>>

-----------------------------------------------------------------------------
(* Python values *)

\* None where a text (a sequence of characters) is expected.
None == <<"None">>
\* None where a plain string is expected.
NoneStr == "None"
\* None where a record (a dict) is expected.
NoRecord == [None |-> TRUE]

\* dict[k] = v
Set(d, k, v) == (k :> v) @@ d

\* dict.setdefault(k, v)
SetDefault(d, k, v) == IF k \in DOMAIN d THEN d ELSE (k :> v) @@ d

\* bool(dict.get(k)) for a string-valued key
Truthy(d, k) == k \in DOMAIN d /\ d[k] \notin {NoneStr, ""}

\* dict(d) without the keys ks (dict.pop(k, None) for each k)
Without(d, ks) == [k \in DOMAIN d \ ks |-> d[k]]

\* Variant: the upper caps min(100, x) of the scoring removed.
min_uncapped(a, b) == b
Min(a, b) == IF a < b THEN a ELSE b
Max(a, b) == IF a > b THEN a ELSE b

\* str.lower() on one character (ASCII letters).
UpperToLower ==
    ("A" :> "a") @@ ("B" :> "b") @@ ("C" :> "c") @@ ("D" :> "d") @@ ("E" :> "e") @@
    ("F" :> "f") @@ ("G" :> "g") @@ ("H" :> "h") @@ ("I" :> "i") @@ ("J" :> "j") @@
    ("K" :> "k") @@ ("L" :> "l") @@ ("M" :> "m") @@ ("N" :> "n") @@ ("O" :> "o") @@
    ("P" :> "p") @@ ("Q" :> "q") @@ ("R" :> "r") @@ ("S" :> "s") @@ ("T" :> "t") @@
    ("U" :> "u") @@ ("V" :> "v") @@ ("W" :> "w") @@ ("X" :> "x") @@ ("Y" :> "y") @@
    ("Z" :> "z")

LowerChar(c) == IF c \in DOMAIN UpperToLower THEN UpperToLower[c] ELSE c

\* str.lower()
lower(s) == SubSeq([i \in 1..Len(s) |-> LowerChar(s[i])], 1, Len(s))

\* The characters str.strip() removes.
Whitespace == {" ", "\t", "\n", "\r", "\f"}

\* str.strip(): the text without its leading and trailing whitespace.
\* Variant: a strip that removes nothing.
strip_nothing(s) == s
strip(s) ==
    IF \A i \in 1..Len(s) : s[i] \in Whitespace THEN <<>>
    ELSE LET first == CHOOSE i \in 1..Len(s) :
                        /\ s[i] \notin Whitespace
                        /\ \A j \in 1..(i - 1) : s[j] \in Whitespace
             last  == CHOOSE i \in 1..Len(s) :
                        /\ s[i] \notin Whitespace
                        /\ \A j \in (i + 1)..Len(s) : s[j] \in Whitespace
         IN  SubSeq(s, first, last)

\* Python's `k in t` on strings: k occurs in t as a contiguous substring.
contains(k, t) ==
    \E i \in 0..(Len(t) - Len(k)) : \A j \in 1..Len(k) : t[i + j] = k[j]

\* Python's `x or ""` for a text that may be None.
or_empty(x) == IF x = None THEN <<>> ELSE x

-----------------------------------------------------------------------------
(* src/src/ai/ai_services.py: score_cv *)

KEYWORDS == <<
    <<"p","y","t","h","o","n">>,
    <<"f","a","s","t","a","p","i">>,
    <<"s","q","l">>,
    <<"d","o","c","k","e","r">>,
    <<"a","w","s">>,
    <<"r","e","a","c","t">>,
    <<"l","e","a","d">>,
    <<"m","a","c","h","i","n","e"," ","l","e","a","r","n","i","n","g">>,
    <<"n","l","p">> >>

\* What a call of get_gemini_response does: the function is None (the import
\* failed), the call raises, or it returns a reply.
GeminiUnavailable == [kind |-> "unavailable"]
GeminiRaises == [kind |-> "raises"]
GeminiReply(r) == [kind |-> "reply", text |-> r]

\* matches = [k for k in KEYWORDS if k in text]
keyword_matches(text) == SelectSeq(KEYWORDS, LAMBDA k : contains(k, text))

\* Variant: the length score without its floor of 10.
length_score_unfloored(text) == Min(100, Len(text) \div 10)
\* length_score = min(100, max(10, len(text) // 10))
length_score(text) == Min(100, Max(10, Len(text) \div 10))

\* Variant: the keyword score without its cap of 100.
keyword_score_uncapped(keyword_count) == keyword_count * 20
\* keyword_score = min(100, keyword_count * 20)
keyword_score(keyword_count) == Min(100, keyword_count * 20)

\* Variant: the two weights exchanged.
weighted_score_swapped(ks, ls) == (4 * ks + 6 * ls) \div 10
\* ats = int((0.6 * keyword_score) + (0.4 * length_score)); both scores are
\* integers in 0..100, where the float sum truncates to the exact quotient.
weighted_score(ks, ls) == (6 * ks + 4 * ls) \div 10

\* The two feedback lines (joined by a space in the code).
feedback_lines(matches, ats) ==
    << IF Len(matches) > 0
         THEN <<"Found relevant skills: ", matches>>
         ELSE <<"No strong keyword matches found. Consider highlighting technical skills.">>,
       IF ats > 80 THEN "Strong match for this role based on keywords and CV length."
       ELSE IF ats > 50
         THEN "Moderate match - could be improved by including more role-specific keywords and measurable achievements."
       ELSE "Low match - suggest tailoring the CV to the job description and adding concrete examples." >>

EmptyCvResult ==
    [ats_score |-> 10, feedback |-> <<"CV empty or not provided.">>, highlights |-> <<>>]

\* Variant: the reply of the external model replaces the feedback.
enrich_overwrites(result, gemini) ==
    IF gemini["kind"] = "reply"
      THEN [result EXCEPT !["feedback"] = <<gemini["text"]>>]
      ELSE result
\* Variant: a reply of the external model settles the score.
enrich_rescoring(result, gemini) ==
    IF gemini["kind"] = "reply"
      THEN [result EXCEPT !["ats_score"] = 100] @@ [detailed_feedback |-> gemini["text"]]
      ELSE result
\* The optional enrichment: a reply is added under detailed_feedback, and a
\* missing function or a raised exception leaves the result as it is.
enrich(result, gemini) ==
    IF gemini["kind"] = "reply"
      THEN result @@ [detailed_feedback |-> gemini["text"]]
      ELSE result

\* The body of score_cv once text = (cv_text or "").lower() is computed.
score_text(text, gemini) ==
    IF strip(text) = <<>> THEN EmptyCvResult
    ELSE
      LET scored(matches) ==
            LET ats == Max(0, Min(100,
                         weighted_score(keyword_score(Len(matches)), length_score(text))))
                base == [ats_score |-> ats,
                         feedback |-> feedback_lines(matches, ats),
                         highlights |-> matches]
            IN  enrich(base, gemini)
      IN  CHOOSE r \in {scored(m) : m \in {keyword_matches(text)}} : TRUE

\* A cv_text that is a JSON number and not a text.
JsonNumber(n) == <<"number", ToString(n)>>

\* Variant: a text method works on every value.
lower_never_raises(x) == FALSE
\* (cv_text or "").lower() raises AttributeError when cv_text is a value
\* that is truthy and not a text.
lower_raises(x) == Len(x) = 2 /\ x[1] = "number" /\ x[2] # "0"

score_cv(text_arg, gemini) ==
    CHOOSE r \in {score_text(t, gemini) : t \in {lower(or_empty(text_arg))}} : TRUE

-----------------------------------------------------------------------------
(* src/src/ai/ai_services.py: generate_assessment_questions *)

\* Python's s[:n]
Slice(s, n) ==
    IF n >= 0 THEN SubSeq(s, 1, Min(n, Len(s))) ELSE SubSeq(s, 1, Max(0, Len(s) + n))

FastApiQuestion ==
    [question |-> "Explain how you would design a FastAPI endpoint to handle file uploads and background processing.",
     type |-> "technical"]
PythonQuestion ==
    [question |-> "Write a short function to parse and validate JSON payloads in Python.",
     type |-> "coding"]
ReactQuestion ==
    [question |-> "Build a React component that fetches and displays paginated data.",
     type |-> "coding"]
StateQuestion ==
    [question |-> "Explain approaches to state management in a large React app.",
     type |-> "technical"]
GenericQuestion ==
    [question |-> "Describe a challenging problem you solved recently and how you approached it.",
     type |-> "open-ended"]

\* A fallback that never pads (variant).
pad_nothing(questions, n) == questions

\* while len(questions) < n: questions.append(generic)
pad_questions(questions, n) ==
    questions \o [i \in 1..Max(0, n - Len(questions)) |-> GenericQuestion]

\* The deterministic fallback: template questions from the job description.
template_questions(job_description, n) ==
    LET jd == lower(or_empty(job_description))
        python == IF contains(<<"p","y","t","h","o","n">>, jd)
                     \/ contains(<<"f","a","s","t","a","p","i">>, jd)
                    THEN <<FastApiQuestion, PythonQuestion>> ELSE <<>>
        react == IF contains(<<"r","e","a","c","t">>, jd)
                    \/ contains(<<"f","r","o","n","t","e","n","d">>, jd)
                   THEN <<ReactQuestion, StateQuestion>> ELSE <<>>
    IN  Slice(pad_questions(python \o react, n), n)

\* A reply of the model is a text; json.loads raises on a text that is not
\* JSON, and otherwise returns the value the text denotes.
JsonInvalid == [doc |-> "not json"]
JsonObject == [doc |-> "object"]
JsonArray(items) == [doc |-> "array", items |-> items]

json_loads(text) ==
    IF text["doc"] = "not json" THEN [raises |-> TRUE]
    ELSE IF text["doc"] = "array" THEN [raises |-> FALSE, is_list |-> TRUE, value |-> text["items"]]
    ELSE [raises |-> FALSE, is_list |-> FALSE]

generate_assessment_questions(cv, job_description, n, gemini) ==
    IF gemini["kind"] = "reply"
         /\ ~ json_loads(gemini["text"])["raises"]
         /\ json_loads(gemini["text"])["is_list"]
      THEN Slice(json_loads(gemini["text"])["value"], n)
      ELSE template_questions(job_description, n)

-----------------------------------------------------------------------------
(* src/src/ai/ai_services.py: ai_agent_response *)

GreetingReply ==
    <<"Hello! I'm the HR-AI agent. How can I help with the interview or scheduling today?">>
SchedulingReply ==
    <<"I can schedule the interview. Please provide a preferred date/time and your timezone.">>
FeedbackReply ==
    <<"I can provide feedback on the candidate's CV or assessment - please upload the CV text or candidate ID.">>
\* f"AI-Agent received: '{message}'. (This is a mock. In production, connect to an LLM.)"
EchoReply(message) ==
    <<"AI-Agent received: '", IF message = None THEN <<"N","o","n","e">> ELSE message,
      "'. (This is a mock. In production, connect to an LLM.)">>

\* Variant: a request for feedback is answered before a scheduling request.
ai_agent_response_feedback_first(session_id, message) ==
    LET m == lower(or_empty(message))
    IN  IF \E g \in {<<"h","e","l","l","o">>, <<"h","i">>, <<"h","e","y">>} : contains(g, m)
          THEN GreetingReply
        ELSE IF contains(<<"t","e","l","l"," ","m","e"," ","a","b","o","u","t">>, m) \/ contains(<<"f","e","e","d","b","a","c","k">>, m)
          THEN FeedbackReply
        ELSE IF contains(<<"s","c","h","e","d","u","l","e">>, m) \/ contains(<<"a","v","a","i","l","a","b","l","e">>, m)
          THEN SchedulingReply
        ELSE EchoReply(message)

ai_agent_response(session_id, message) ==
    LET m == lower(or_empty(message))
    IN  IF \E g \in {<<"h","e","l","l","o">>, <<"h","i">>, <<"h","e","y">>} : contains(g, m)
          THEN GreetingReply
        ELSE IF contains(<<"s","c","h","e","d","u","l","e">>, m) \/ contains(<<"a","v","a","i","l","a","b","l","e">>, m)
          THEN SchedulingReply
        ELSE IF contains(<<"t","e","l","l"," ","m","e"," ","a","b","o","u","t">>, m) \/ contains(<<"f","e","e","d","b","a","c","k">>, m)
          THEN FeedbackReply
        ELSE EchoReply(message)

-----------------------------------------------------------------------------
(* src/src/db/crud.py: the record store.  Every operator takes the store  *)
(* and returns [db |-> the store after the call, doc |-> the record].      *)

EmptyDatabase ==
    [c \in {"users", "organizations", "jobs", "candidates", "screening_results",
            "assessments", "assessment_results", "interviews",
            "interview_transcripts"} |-> <<>>]

\* str(uuid4()): an identifier no earlier call returned.  No record is ever
\* deleted, so the size of the collection names the next one.
uuid4(kind, n) == kind \o "-" \o ToString(n)

generate_id(db, kind) == uuid4(kind, Cardinality(DOMAIN db[kind]) + 1)

\* Variant: every save stores under a newly generated key.
simulate_save_appending(db, collection_name, data, now) ==
    LET doc_id == generate_id(db, collection_name)
        fresh == IF "id" \notin DOMAIN data
                   THEN Set(Set(data, "id", doc_id), "created_at", now)
                   ELSE data
        doc == Set(fresh, "updated_at", now)
    IN  [db |-> [db EXCEPT ![collection_name] = Set(@, doc_id, doc)], doc |-> doc]

\* Variant: every save stamps the creation time again.
simulate_save_restamping(db, collection_name, data, now) ==
    LET doc_id == IF Truthy(data, "id") THEN data["id"] ELSE generate_id(db, collection_name)
        doc == Set(Set(Set(data, "id", doc_id), "created_at", now), "updated_at", now)
    IN  [db |-> [db EXCEPT ![collection_name] = Set(@, doc_id, doc)], doc |-> doc]
simulate_save(db, collection_name, data, now) ==
    LET doc_id == IF Truthy(data, "id") THEN data["id"] ELSE generate_id(db, collection_name)
        fresh == IF "id" \notin DOMAIN data
                   THEN Set(Set(data, "id", doc_id), "created_at", now)
                   ELSE data
        doc == Set(fresh, "updated_at", now)
    IN  [db |-> [db EXCEPT ![collection_name] = Set(@, doc_id, doc)], doc |-> doc]

get_user_by_id(db, user_id) ==
    IF user_id \in DOMAIN db["users"] THEN db["users"][user_id] ELSE NoRecord

\* Variant: a lookup that finds nobody.
get_no_user_by_email(db, email) == NoRecord
\* The scan runs in insertion order, the order the ids were generated in,
\* and returns the first user whose lower-cased email matches.
get_user_by_email(db, email) ==
    LET hits == {n \in 1..Cardinality(DOMAIN db["users"]) :
                    lower(db["users"][uuid4("users", n)]["email"]) = lower(email)}
    IN  IF hits = {} THEN NoRecord
        ELSE db["users"][uuid4("users", CHOOSE n \in hits : \A m \in hits : n <= m)]

\* Variant: the insert itself refuses an email that is already stored.
create_user_unique(db, user_data, now) ==
    IF get_user_by_email(db, user_data["email"]) # NoRecord
      THEN [db |-> db, doc |-> get_user_by_email(db, user_data["email"])]
      ELSE simulate_save(db, "users",
               SetDefault(SetDefault(user_data, "is_active", TRUE), "org_id", "default-org"), now)
create_user(db, user_data, now) ==
    simulate_save(db, "users",
        SetDefault(SetDefault(user_data, "is_active", TRUE), "org_id", "default-org"), now)

\* Variant: every id resolves to the placeholder organization.
get_default_organization(db, org_id) ==
    [id |-> "default-org", name |-> "Gemini Innovations",
     hr_contact_email |-> "hr@gemini-innovations.com"]
get_organization_by_id(db, org_id) ==
    IF org_id = "default-org"
      THEN [id |-> "default-org", name |-> "Gemini Innovations",
            hr_contact_email |-> "hr@gemini-innovations.com"]
    ELSE IF org_id \in DOMAIN db["organizations"] THEN db["organizations"][org_id]
    ELSE NoRecord

\* Variant: a job without a status is stored ACTIVE.
create_job_post_active(db, job_data, org_id, now) ==
    simulate_save(db, "jobs", SetDefault(Set(job_data, "org_id", org_id), "status", "ACTIVE"), now)

create_job_post(db, job_data, org_id, now) ==
    simulate_save(db, "jobs", SetDefault(Set(job_data, "org_id", org_id), "status", "DRAFT"), now)

get_job_post(db, job_id) ==
    IF job_id \in DOMAIN db["jobs"] THEN db["jobs"][job_id] ELSE NoRecord

\* Variant: the jobs of every organization.
get_job_posts_of_all(db, org_id) == DOMAIN db["jobs"]
get_all_job_posts(db, org_id) ==
    {j \in DOMAIN db["jobs"] : db["jobs"][j]["org_id"] = org_id}

\* Variant: the update replaces the record instead of merging into it.
update_job_post_replacing(db, job_id, update_data, now) ==
    IF job_id \in DOMAIN db["jobs"]
      THEN simulate_save(db, "jobs", Set(update_data, "id", job_id), now)
      ELSE [db |-> db, doc |-> NoRecord]
update_job_post(db, job_id, update_data, now) ==
    IF job_id \in DOMAIN db["jobs"]
      THEN simulate_save(db, "jobs", update_data @@ db["jobs"][job_id], now)
      ELSE [db |-> db, doc |-> NoRecord]

\* Variant: a candidate without a stage is stored as SCREENING_PASSED.
create_candidate_screened(db, candidate_data, job_post_id, now) ==
    simulate_save(db, "candidates",
        SetDefault(SetDefault(Set(candidate_data, "job_post_id", job_post_id),
                              "stage", "SCREENING_PASSED"),
                   "application_date", now), now)

create_candidate(db, candidate_data, job_post_id, now) ==
    simulate_save(db, "candidates",
        SetDefault(SetDefault(Set(candidate_data, "job_post_id", job_post_id),
                              "stage", "APPLIED"),
                   "application_date", now), now)

get_candidate(db, candidate_id) ==
    IF candidate_id \in DOMAIN db["candidates"] THEN db["candidates"][candidate_id] ELSE NoRecord

\* Variant: only the candidates still in stage APPLIED are listed.
get_applied_candidates_by_job(db, job_id) ==
    {c \in DOMAIN db["candidates"] : /\ db["candidates"][c]["job_post_id"] = job_id
                                     /\ db["candidates"][c]["stage"] = "APPLIED"}
get_candidates_by_job(db, job_id) ==
    {c \in DOMAIN db["candidates"] : db["candidates"][c]["job_post_id"] = job_id}

update_candidate_stage(db, candidate_id, new_stage, now) ==
    IF candidate_id \in DOMAIN db["candidates"]
      THEN simulate_save(db, "candidates",
                         Set(db["candidates"][candidate_id], "stage", new_stage), now)
      ELSE [db |-> db, doc |-> NoRecord]

create_screening_result(db, result_data, now) ==
    simulate_save(db, "screening_results", result_data, now)

\* Variant: a candidate has one assessment, which a later one replaces.
create_assessment_replacing(db, assessment_data, now) ==
    LET same == {a \in DOMAIN db["assessments"] :
                    db["assessments"][a]["candidate_id"] = assessment_data["candidate_id"]}
        filled == SetDefault(SetDefault(SetDefault(SetDefault(assessment_data,
                      "status", "SENT"),
                      "sent_at", now),
                      "generated_questions", <<>>),
                      "completion_link", "/assessments/replaced")
    IN  IF same = {} THEN simulate_save(db, "assessments", filled, now)
        ELSE simulate_save(db, "assessments", Set(filled, "id", CHOOSE a \in same : TRUE), now)
create_assessment(db, assessment_data, now) ==
    simulate_save(db, "assessments",
        SetDefault(SetDefault(SetDefault(SetDefault(assessment_data,
            "status", "SENT"),
            "sent_at", now),
            "generated_questions", <<>>),
            "completion_link", "/assessments/" \o uuid4("link", Cardinality(DOMAIN db["assessments"]) + 1)), now)

create_interview(db, interview_data, now) ==
    simulate_save(db, "interviews",
        SetDefault(SetDefault(SetDefault(interview_data,
            "status", "PENDING"),
            "meeting_link", NoneStr),
            "scheduled_time", NoneStr), now)

-----------------------------------------------------------------------------
(* src/src/db/dummy_data.py: the records init_dummy_data() saves at        *)
(* start-up.  Times are hours relative to start-up.                        *)

SeedUser1 ==
    [email |-> <<"a","l","i","c","e","@","t","e","c","h","c","o","r","p",".","c","o","m">>,
     full_name |-> "Alice Johnson",
     password |-> "password123",
     org_id |-> "test-org-1",
     is_active |-> TRUE]

SeedUser2 ==
    [email |-> <<"b","o","b","@","t","e","c","h","c","o","r","p",".","c","o","m">>,
     full_name |-> "Bob Smith",
     password |-> "password123",
     org_id |-> "test-org-1",
     is_active |-> TRUE]

SeedJob1 ==
    [title |-> "Senior Python Developer",
     location |-> "San Francisco, CA",
     description |-> <<"W","e"," ","a","r","e"," ","l","o","o","k","i","n","g"," ","f","o","r"," ","a"," ","S","e","n","i","o","r"," ","P","y","t","h","o","n"," ","D","e","v","e","l","o","p","e","r"," ","w","i","t","h"," ","5","+"," ","y","e","a","r","s"," ","o","f"," ","e","x","p","e","r","i","e","n","c","e"," ","i","n"," ","b","u","i","l","d","i","n","g"," ","s","c","a","l","a","b","l","e"," ","w","e","b"," ","a","p","p","l","i","c","a","t","i","o","n","s"," ","u","s","i","n","g"," ","F","a","s","t","A","P","I"," ","a","n","d"," ","D","j","a","n","g","o","."," ","S","t","r","o","n","g"," ","k","n","o","w","l","e","d","g","e"," ","o","f"," ","D","o","c","k","e","r",","," ","K","u","b","e","r","n","e","t","e","s",","," ","a","n","d"," ","c","l","o","u","d"," ","s","e","r","v","i","c","e","s"," ","(","A","W","S",","," ","G","C","P",")"," ","r","e","q","u","i","r","e","d","."," ","M","u","s","t"," ","h","a","v","e"," ","e","x","p","e","r","i","e","n","c","e"," ","w","i","t","h"," ","P","o","s","t","g","r","e","S","Q","L"," ","a","n","d"," ","R","e","d","i","s",".">>,
     required_skills |-> <<"Python", "FastAPI", "Django", "PostgreSQL", "Docker", "AWS">>,
     min_experience_years |-> 5,
     salary_range_min |-> 120000,
     salary_range_max |-> 180000,
     status |-> "ACTIVE"]

SeedJob2 ==
    [title |-> "Frontend Engineer",
     location |-> "Remote",
     description |-> <<"S","e","e","k","i","n","g"," ","a"," ","F","r","o","n","t","e","n","d"," ","E","n","g","i","n","e","e","r"," ","w","i","t","h"," ","e","x","p","e","r","t","i","s","e"," ","i","n"," ","R","e","a","c","t",","," ","T","y","p","e","S","c","r","i","p","t",","," ","a","n","d"," ","m","o","d","e","r","n"," ","C","S","S"," ","f","r","a","m","e","w","o","r","k","s","."," ","E","x","p","e","r","i","e","n","c","e"," ","w","i","t","h"," ","s","t","a","t","e"," ","m","a","n","a","g","e","m","e","n","t"," ","t","o","o","l","s"," ","(","R","e","d","u","x",","," ","Z","u","s","t","a","n","d",")"," ","a","n","d"," ","t","e","s","t","i","n","g"," ","l","i","b","r","a","r","i","e","s"," ","(","J","e","s","t",","," ","R","e","a","c","t"," ","T","e","s","t","i","n","g"," ","L","i","b","r","a","r","y",")"," ","i","s"," ","e","s","s","e","n","t","i","a","l","."," ","Y","o","u"," ","s","h","o","u","l","d"," ","h","a","v","e"," ","a"," ","p","a","s","s","i","o","n"," ","f","o","r"," ","c","r","e","a","t","i","n","g"," ","r","e","s","p","o","n","s","i","v","e"," ","a","n","d"," ","a","c","c","e","s","s","i","b","l","e"," ","u","s","e","r"," ","i","n","t","e","r","f","a","c","e","s",".">>,
     required_skills |-> <<"React", "TypeScript", "JavaScript", "CSS", "Redux", "Jest">>,
     min_experience_years |-> 3,
     salary_range_min |-> 100000,
     salary_range_max |-> 150000,
     status |-> "ACTIVE"]

SeedJob3 ==
    [title |-> "Data Scientist",
     location |-> "New York, NY",
     description |-> <<"J","o","i","n"," ","o","u","r"," ","d","a","t","a"," ","t","e","a","m"," ","t","o"," ","b","u","i","l","d"," ","m","a","c","h","i","n","e"," ","l","e","a","r","n","i","n","g"," ","m","o","d","e","l","s"," ","a","n","d"," ","d","a","t","a"," ","p","i","p","e","l","i","n","e","s","."," ","R","e","q","u","i","r","e","d",":"," ","S","t","r","o","n","g"," ","P","y","t","h","o","n"," ","s","k","i","l","l","s",","," ","e","x","p","e","r","i","e","n","c","e"," ","w","i","t","h"," ","p","a","n","d","a","s",","," ","n","u","m","p","y",","," ","s","c","i","k","i","t","-","l","e","a","r","n",","," ","a","n","d"," ","T","e","n","s","o","r","F","l","o","w","."," ","K","n","o","w","l","e","d","g","e"," ","o","f"," ","S","Q","L"," ","a","n","d"," ","b","i","g"," ","d","a","t","a"," ","t","o","o","l","s"," ","(","S","p","a","r","k",","," ","H","a","d","o","o","p",")"," ","i","s"," ","a"," ","p","l","u","s","."," ","P","h","D"," ","i","n"," ","C","o","m","p","u","t","e","r"," ","S","c","i","e","n","c","e"," ","o","r"," ","r","e","l","a","t","e","d"," ","f","i","e","l","d"," ","p","r","e","f","e","r","r","e","d",".">>,
     required_skills |-> <<"Python", "Machine Learning", "TensorFlow", "pandas", "SQL", "Spark">>,
     min_experience_years |-> 4,
     salary_range_min |-> 130000,
     salary_range_max |-> 190000,
     status |-> "ACTIVE"]

SeedCandidate1 ==
    [full_name |-> "Sarah Connor",
     email |-> <<"s","a","r","a","h",".","c","o","n","n","o","r","@","e","m","a","i","l",".","c","o","m">>,
     cv_text |-> <<"S","a","r","a","h"," ","C","o","n","n","o","r"," ","-"," ","S","e","n","i","o","r"," ","S","o","f","t","w","a","r","e"," ","E","n","g","i","n","e","e","r","\n","\n","E","x","p","e","r","i","e","n","c","e",":","\n","-"," ","6"," ","y","e","a","r","s"," ","a","s"," ","S","e","n","i","o","r"," ","P","y","t","h","o","n"," ","D","e","v","e","l","o","p","e","r"," ","a","t"," ","T","e","c","h","C","o","r","p","\n","-"," ","B","u","i","l","t"," ","s","c","a","l","a","b","l","e"," ","A","P","I","s"," ","u","s","i","n","g"," ","F","a","s","t","A","P","I"," ","a","n","d"," ","D","j","a","n","g","o","\n","-"," ","D","o","c","k","e","r"," ","a","n","d"," ","K","u","b","e","r","n","e","t","e","s"," ","d","e","p","l","o","y","m","e","n","t"," ","e","x","p","e","r","i","e","n","c","e","\n","-"," ","A","W","S"," ","c","e","r","t","i","f","i","e","d"," ","s","o","l","u","t","i","o","n","s"," ","a","r","c","h","i","t","e","c","t","\n","-"," ","L","e","d"," ","t","e","a","m"," ","o","f"," ","5"," ","d","e","v","e","l","o","p","e","r","s","\n","-"," ","P","o","s","t","g","r","e","S","Q","L"," ","a","n","d"," ","R","e","d","i","s"," ","o","p","t","i","m","i","z","a","t","i","o","n"," ","e","x","p","e","r","t","\n","\n","S","k","i","l","l","s",":"," ","P","y","t","h","o","n",","," ","F","a","s","t","A","P","I",","," ","D","j","a","n","g","o",","," ","P","o","s","t","g","r","e","S","Q","L",","," ","D","o","c","k","e","r",","," ","K","u","b","e","r","n","e","t","e","s",","," ","A","W","S",","," ","G","i","t","\n","E","d","u","c","a","t","i","o","n",":"," ","B","S"," ","i","n"," ","C","o","m","p","u","t","e","r"," ","S","c","i","e","n","c","e"," ","f","r","o","m"," ","M","I","T">>,
     stage |-> "APPLIED",
     application_date |-> -48]

SeedCandidate2 ==
    [full_name |-> "John Doe",
     email |-> <<"j","o","h","n",".","d","o","e","@","e","m","a","i","l",".","c","o","m">>,
     cv_text |-> <<"J","o","h","n"," ","D","o","e"," ","-"," ","P","y","t","h","o","n"," ","D","e","v","e","l","o","p","e","r","\n","\n","E","x","p","e","r","i","e","n","c","e",":","\n","-"," ","3"," ","y","e","a","r","s"," ","a","s"," ","P","y","t","h","o","n"," ","D","e","v","e","l","o","p","e","r"," ","a","t"," ","S","t","a","r","t","u","p","X","Y","Z","\n","-"," ","B","u","i","l","t"," ","R","E","S","T"," ","A","P","I","s"," ","w","i","t","h"," ","F","l","a","s","k","\n","-"," ","S","o","m","e"," ","D","o","c","k","e","r"," ","e","x","p","e","r","i","e","n","c","e","\n","-"," ","B","a","s","i","c"," ","A","W","S"," ","k","n","o","w","l","e","d","g","e","\n","-"," ","M","o","n","g","o","D","B"," ","d","a","t","a","b","a","s","e"," ","e","x","p","e","r","i","e","n","c","e","\n","\n","S","k","i","l","l","s",":"," ","P","y","t","h","o","n",","," ","F","l","a","s","k",","," ","D","o","c","k","e","r",","," ","M","o","n","g","o","D","B",","," ","J","a","v","a","S","c","r","i","p","t",","," ","H","T","M","L","/","C","S","S","\n","E","d","u","c","a","t","i","o","n",":"," ","B","S"," ","i","n"," ","I","n","f","o","r","m","a","t","i","o","n"," ","T","e","c","h","n","o","l","o","g","y"," ","f","r","o","m"," ","S","t","a","t","e"," ","U","n","i","v","e","r","s","i","t","y">>,
     stage |-> "APPLIED",
     application_date |-> -24]

SeedCandidate3 ==
    [full_name |-> "Emma Wilson",
     email |-> <<"e","m","m","a",".","w","i","l","s","o","n","@","e","m","a","i","l",".","c","o","m">>,
     cv_text |-> <<"E","m","m","a"," ","W","i","l","s","o","n"," ","-"," ","S","e","n","i","o","r"," ","F","r","o","n","t","e","n","d"," ","E","n","g","i","n","e","e","r","\n","\n","E","x","p","e","r","i","e","n","c","e",":","\n","-"," ","5"," ","y","e","a","r","s"," ","a","s"," ","F","r","o","n","t","e","n","d"," ","E","n","g","i","n","e","e","r"," ","a","t"," ","W","e","b","C","o","r","p","\n","-"," ","E","x","p","e","r","t"," ","i","n"," ","R","e","a","c","t"," ","a","n","d"," ","T","y","p","e","S","c","r","i","p","t","\n","-"," ","B","u","i","l","t"," ","a","c","c","e","s","s","i","b","l","e"," ","U","I","s"," ","f","o","l","l","o","w","i","n","g"," ","W","C","A","G"," ","s","t","a","n","d","a","r","d","s","\n","-"," ","R","e","d","u","x"," ","a","n","d"," ","C","o","n","t","e","x","t"," ","A","P","I"," ","p","r","o","f","i","c","i","e","n","c","y","\n","-"," ","J","e","s","t"," ","a","n","d"," ","R","e","a","c","t"," ","T","e","s","t","i","n","g"," ","L","i","b","r","a","r","y"," ","e","x","p","e","r","t","\n","-"," ","C","S","S","-","i","n","-","J","S"," ","a","n","d"," ","r","e","s","p","o","n","s","i","v","e"," ","d","e","s","i","g","n"," ","s","p","e","c","i","a","l","i","s","t","\n","\n","S","k","i","l","l","s",":"," ","R","e","a","c","t",","," ","T","y","p","e","S","c","r","i","p","t",","," ","J","a","v","a","S","c","r","i","p","t",","," ","C","S","S","3",","," ","R","e","d","u","x",","," ","J","e","s","t",","," ","R","e","a","c","t"," ","T","e","s","t","i","n","g"," ","L","i","b","r","a","r","y",","," ","W","e","b","p","a","c","k","\n","E","d","u","c","a","t","i","o","n",":"," ","B","S"," ","i","n"," ","W","e","b"," ","D","e","v","e","l","o","p","m","e","n","t"," ","f","r","o","m"," ","D","e","s","i","g","n"," ","A","c","a","d","e","m","y">>,
     stage |-> "APPLIED",
     application_date |-> -72]

SeedCandidate4 ==
    [full_name |-> "Dr. Michael Chen",
     email |-> <<"m","i","c","h","a","e","l",".","c","h","e","n","@","e","m","a","i","l",".","c","o","m">>,
     cv_text |-> <<"D","r","."," ","M","i","c","h","a","e","l"," ","C","h","e","n"," ","-"," ","D","a","t","a"," ","S","c","i","e","n","t","i","s","t","\n","\n","E","x","p","e","r","i","e","n","c","e",":","\n","-"," ","P","h","D"," ","i","n"," ","M","a","c","h","i","n","e"," ","L","e","a","r","n","i","n","g"," ","f","r","o","m"," ","S","t","a","n","f","o","r","d","\n","-"," ","7"," ","y","e","a","r","s"," ","i","n"," ","M","L","/","A","I"," ","r","e","s","e","a","r","c","h"," ","a","n","d"," ","d","e","v","e","l","o","p","m","e","n","t","\n","-"," ","E","x","p","e","r","t"," ","i","n"," ","T","e","n","s","o","r","F","l","o","w",","," ","P","y","T","o","r","c","h",","," ","a","n","d"," ","s","c","i","k","i","t","-","l","e","a","r","n","\n","-"," ","B","u","i","l","t"," ","r","e","c","o","m","m","e","n","d","a","t","i","o","n"," ","s","y","s","t","e","m","s"," ","u","s","i","n","g"," ","d","e","e","p"," ","l","e","a","r","n","i","n","g","\n","-"," ","B","i","g"," ","d","a","t","a"," ","p","i","p","e","l","i","n","e"," ","d","e","v","e","l","o","p","m","e","n","t"," ","w","i","t","h"," ","S","p","a","r","k","\n","-"," ","S","Q","L"," ","o","p","t","i","m","i","z","a","t","i","o","n"," ","a","n","d"," ","d","a","t","a"," ","w","a","r","e","h","o","u","s","e"," ","d","e","s","i","g","n","\n","-"," ","P","u","b","l","i","s","h","e","d"," ","1","5","+"," ","p","a","p","e","r","s"," ","i","n"," ","t","o","p"," ","M","L"," ","c","o","n","f","e","r","e","n","c","e","s","\n","\n","S","k","i","l","l","s",":"," ","P","y","t","h","o","n",","," ","T","e","n","s","o","r","F","l","o","w",","," ","s","c","i","k","i","t","-","l","e","a","r","n",","," ","p","a","n","d","a","s",","," ","S","p","a","r","k",","," ","S","Q","L",","," ","D","o","c","k","e","r",","," ","A","W","S"," ","S","a","g","e","M","a","k","e","r","\n","E","d","u","c","a","t","i","o","n",":"," ","P","h","D"," ","i","n"," ","M","a","c","h","i","n","e"," ","L","e","a","r","n","i","n","g",","," ","B","S"," ","i","n"," ","M","a","t","h","e","m","a","t","i","c","s">>,
     stage |-> "APPLIED",
     application_date |-> -120]

SeedScreening1 ==
    [candidate_id |-> "candidates-1",
     job_id |-> "jobs-1",
     ats_score |-> 92,
     feedback |-> "Excellent match! 6 years of directly relevant Python/FastAPI experience. All required skills present. Strong background with AWS and Docker. Ready for interview.",
     highlights |-> <<"FastAPI", "Django", "AWS", "Docker", "Kubernetes", "PostgreSQL", "Redis">>,
     strengths |-> <<"Leadership experience", "AWS certified", "Strong technical depth">>,
     gaps |-> <<>>]

SeedScreening2 ==
    [candidate_id |-> "candidates-2",
     job_id |-> "jobs-1",
     ats_score |-> 58,
     feedback |-> "Partial match. Has Python experience but lacks FastAPI expertise (Flask background). Limited AWS/Docker experience. May need ramp-up time. Consider for junior/mid-level positions.",
     highlights |-> <<"Python", "Docker", "MongoDB">>,
     strengths |-> <<"Python fundamentals", "REST API experience">>,
     gaps |-> <<"FastAPI", "Advanced AWS", "Kubernetes", "PostgreSQL">>]

SeedScreening3 ==
    [candidate_id |-> "candidates-3",
     job_id |-> "jobs-2",
     ats_score |-> 88,
     feedback |-> "Strong match! 5 years of React/TypeScript experience. Excellent testing knowledge with Jest and RTL. Accessibility expertise is a bonus. Ready for senior role.",
     highlights |-> <<"React", "TypeScript", "Jest", "React Testing Library", "CSS3", "Redux">>,
     strengths |-> <<"Accessibility focus", "Testing expertise", "Modern tooling knowledge">>,
     gaps |-> <<>>]

SeedScreening4 ==
    [candidate_id |-> "candidates-4",
     job_id |-> "jobs-3",
     ats_score |-> 95,
     feedback |-> "Exceptional match! PhD in Machine Learning with 7+ years experience. Expert in all required tools. Published researcher. Significantly overqualified but perfect fit.",
     highlights |-> <<"TensorFlow", "scikit-learn", "Spark", "SQL", "Python", "AWS SageMaker">>,
     strengths |-> <<"PhD background", "Research publications", "Deep learning expertise", "Big data experience">>,
     gaps |-> <<>>]

SeedAssessment1 ==
    [candidate_id |-> "candidates-1",
     job_id |-> "jobs-1",
     generated_questions |-> <<[question |-> "Explain the difference between sync and async in Python. How would you implement async/await in a FastAPI endpoint?", type |-> "open-ended"], [question |-> "Design a scalable database schema for a multi-tenant SaaS application. What indexing strategies would you use?", type |-> "open-ended"], [question |-> "How would you optimize a slow PostgreSQL query that joins 5 tables?", type |-> "technical"], [question |-> "Describe your experience with Docker and Kubernetes in production environments.", type |-> "experience"]>>,
     status |-> "SENT",
     created_at |-> -2]

SeedAssessment2 ==
    [candidate_id |-> "candidates-3",
     job_id |-> "jobs-2",
     generated_questions |-> <<[question |-> "Build a React component that fetches user data from an API and displays it in a table with sorting and filtering.", type |-> "coding"], [question |-> "Explain your approach to state management. When would you use Redux vs Context API?", type |-> "technical"], [question |-> "How do you ensure your React components are accessible? What tools and practices do you use?", type |-> "technical"], [question |-> "Write unit tests for a custom React hook.", type |-> "coding"]>>,
     status |-> "SENT",
     created_at |-> -1]

SeedInterview1 ==
    [candidate_id |-> "candidates-1",
     job_id |-> "jobs-1",
     scheduled_time |-> 82,
     interviewer_name |-> "Tech Lead - Robert Johnson",
     interview_format |-> "Technical + Behavioral",
     duration_minutes |-> 60,
     status |-> "SCHEDULED",
     meeting_link |-> "https://meet.google.com/abc-defg-hij"]

SeedInterview2 ==
    [candidate_id |-> "candidates-3",
     job_id |-> "jobs-2",
     scheduled_time |-> 62,
     interviewer_name |-> "Engineering Manager - Lisa Wong",
     interview_format |-> "Technical + System Design",
     duration_minutes |-> 90,
     status |-> "SCHEDULED",
     meeting_link |-> "https://meet.google.com/xyz-uvwx-stu"]

\* init_dummy_data(): the store after start-up.
SeededDatabase ==
    LET u1 == create_user(EmptyDatabase, SeedUser1, 0).db
        u2 == create_user(u1, SeedUser2, 0).db
        j1 == create_job_post(u2, SeedJob1, "test-org-1", 0).db
        j2 == create_job_post(j1, SeedJob2, "test-org-1", 0).db
        j3 == create_job_post(j2, SeedJob3, "test-org-1", 0).db
        c1 == create_candidate(j3, SeedCandidate1, "jobs-1", 0).db
        c2 == create_candidate(c1, SeedCandidate2, "jobs-1", 0).db
        c3 == create_candidate(c2, SeedCandidate3, "jobs-2", 0).db
        c4 == create_candidate(c3, SeedCandidate4, "jobs-3", 0).db
        s1 == create_screening_result(c4, SeedScreening1, 0).db
        s2 == create_screening_result(s1, SeedScreening2, 0).db
        s3 == create_screening_result(s2, SeedScreening3, 0).db
        s4 == create_screening_result(s3, SeedScreening4, 0).db
        a1 == create_assessment(s4, SeedAssessment1, 0).db
        a2 == create_assessment(a1, SeedAssessment2, 0).db
        i1 == create_interview(a2, SeedInterview1, 0).db
        i2 == create_interview(i1, SeedInterview2, 0).db
    IN  i2

-----------------------------------------------------------------------------
(* src/main.py: authentication *)

TEST_EMAIL == <<"t","e","s","t","@","e","x","a","m","p","l","e",".","c","o","m">>
TEST_PASSWORD == "testpass"
TEST_TOKEN == "test-token-123"
TEST_USER ==
    [id |-> "test-user-1", email |-> TEST_EMAIL, full_name |-> "Test User",
     org_id |-> "test-org-1", is_active |-> TRUE, created_at |-> 0]

\* Variant: every password is accepted.
verify_any_password(plain_password, user) == TRUE
verify_password(plain_password, user) ==
    IF "password" \notin DOMAIN user THEN FALSE ELSE plain_password = user["password"]

\* Variant: the stored password is not the one the user typed.
hash_password_salted(password) == password \o "#"
hash_password(password) == password

\* schemas.User(**d): the response model keeps the public fields of a user.
User(d) ==
    [k \in DOMAIN d \cap {"id", "email", "full_name", "org_id", "is_active", "created_at"}
        |-> d[k]]

HttpError(status, detail) == [status |-> status, detail |-> detail]

\* The record get_current_user looks a bearer token up to: TEST_USER for the
\* demo token, and otherwise the stored user whose id the token is.
token_user_data(db, token) ==
    IF token = TEST_TOKEN THEN TEST_USER ELSE get_user_by_id(db, token)

\* get_current_user: the user a bearer token resolves to, or the error raised.
get_current_user(db, token) ==
    LET user_data == token_user_data(db, token)
    IN  IF user_data = NoRecord
          THEN HttpError(401, "Invalid authentication credentials or token")
        ELSE IF ~ ("is_active" \in DOMAIN user_data /\ user_data["is_active"])
          THEN HttpError(400, "Inactive user")
        ELSE [status |-> 200, user |-> User(user_data)]

\* current_user.org_id
org_id_of(db, token) ==
    LET user_data == token_user_data(db, token)
    IN  IF "org_id" \in DOMAIN user_data THEN user_data["org_id"] ELSE NoneStr

MaxRegistered == 2   \* users registered through the API

SeedUserCount == Cardinality(DOMAIN SeededDatabase["users"])

\* POST /register
register_user(user) ==
    /\ request' = [op |-> "register_user", user |-> user]
    /\ IF get_user_by_email(DATABASE, user["email"]) # NoRecord
         THEN /\ response' = HttpError(400, "Email already registered")
              /\ UNCHANGED DATABASE
         ELSE
           /\ Cardinality(DOMAIN DATABASE["users"]) < SeedUserCount + MaxRegistered
           /\ LET hashed == Set(user, "password", hash_password(user["password"]))
                  user_data == Without(hashed, {"org_name"})
                  has_org == Truthy(user, "org_name")
                  org_id == generate_id(DATABASE, "organizations")
                  with_org ==
                      IF has_org
                        THEN [DATABASE EXCEPT !["organizations"] =
                                Set(@, org_id, [id |-> org_id, name |-> user["org_name"],
                                                hr_contact_email |-> user["email"]])]
                        ELSE DATABASE
                  saved == create_user(with_org,
                               IF has_org THEN Set(user_data, "org_id", org_id) ELSE user_data,
                               clock)
              IN  /\ DATABASE' = saved.db
                  /\ response' = [status |-> 201,
                                  body |-> User(Without(saved.doc, {"password", "updated_at"}))]
    /\ UNCHANGED <<clock, get_gemini_response, probe_vars>>

\* register_user is a plain def: FastAPI runs each call on a worker thread,
\* so two calls interleave.  The first step of a call is the lookup of the
\* email (main.py 104), answered 400 at once when the email is found.
MaxThreads == 2   \* register requests in progress at once

register_lookup(th, user) ==
    /\ threads[th]["at"] = "idle"
    /\ IF get_user_by_email(DATABASE, user["email"]) # NoRecord
         THEN /\ request' = [op |-> "register_user", thread |-> th, user |-> user]
              /\ response' = HttpError(400, "Email already registered")
              /\ threads' = [threads EXCEPT ![th] =
                               [at |-> "done", user |-> user, status |-> 400]]
         ELSE /\ threads' = [threads EXCEPT ![th] = [at |-> "insert", user |-> user]]
              /\ UNCHANGED <<request, response>>
    /\ UNCHANGED <<DATABASE, clock, get_gemini_response, score_vars, oa_vars, pc, demo>>

\* The rest of the call (main.py 106-120): the organization and the user are
\* stored without a second look at the email.
register_insert(th) ==
    /\ threads[th]["at"] = "insert"
    /\ LET user == threads[th]["user"]
           hashed == Set(user, "password", hash_password(user["password"]))
           user_data == Without(hashed, {"org_name"})
           has_org == Truthy(user, "org_name")
           org_id == generate_id(DATABASE, "organizations")
           with_org ==
               IF has_org
                 THEN [DATABASE EXCEPT !["organizations"] =
                         Set(@, org_id, [id |-> org_id, name |-> user["org_name"],
                                         hr_contact_email |-> user["email"]])]
                 ELSE DATABASE
           saved == create_user(with_org,
                        IF has_org THEN Set(user_data, "org_id", org_id) ELSE user_data,
                        clock)
       IN  /\ DATABASE' = saved["db"]
           /\ request' = [op |-> "register_user", thread |-> th, user |-> user]
           /\ response' = [status |-> 201,
                           body |-> User(Without(saved["doc"], {"password", "updated_at"}))]
           /\ threads' = [threads EXCEPT ![th] =
                            [at |-> "done", user |-> user, status |-> 201,
                             id |-> saved["doc"]["id"]]]
    /\ UNCHANGED <<clock, get_gemini_response, score_vars, oa_vars, pc, demo>>

TextHtml == <<"t","e","x","t","/","h","t","m","l">>

\* The non-JS fallback of /token: a form submission is redirected.
token_response(token, accept) ==
    IF contains(TextHtml, lower(accept)) \/ accept = <<>>
      THEN [status |-> 303, location |-> "/dashboard", cookie |-> token]
      ELSE [status |-> 200, body |-> [access_token |-> token, token_type |-> "bearer"]]

\* POST /token
login_for_access_token(username, password, accept) ==
    /\ request' = [op |-> "login_for_access_token", username |-> username,
                   password |-> password, accept |-> accept]
    /\ response' =
         IF username = TEST_EMAIL /\ password = TEST_PASSWORD
           THEN token_response(TEST_TOKEN, accept)
         ELSE LET user == get_user_by_email(DATABASE, username)
              IN  IF user = NoRecord \/ ~ verify_password(password, user)
                    THEN HttpError(401, "Incorrect username or password")
                    ELSE token_response(user["id"], accept)
    /\ UNCHANGED <<DATABASE, clock, get_gemini_response, probe_vars>>

\* GET /users/me
read_users_me(token) ==
    /\ request' = [op |-> "read_users_me", token |-> token]
    /\ response' =
         LET auth == get_current_user(DATABASE, token)
         IN  IF auth.status # 200 THEN auth ELSE [status |-> 200, body |-> auth.user]
    /\ UNCHANGED <<DATABASE, clock, get_gemini_response, probe_vars>>

-----------------------------------------------------------------------------
(* src/main.py: job posts *)

\* dict.get(k, default)
Get(d, k, default) == IF k \in DOMAIN d THEN d[k] ELSE default

\* schemas.JobPost(**d): the response model keeps the fields of a job post.
JobPost(d) ==
    [k \in DOMAIN d \cap {"id", "org_id", "title", "description", "location",
                          "required_skills", "status", "salary_range_min",
                          "salary_range_max", "min_experience_years",
                          "created_at", "updated_at"} |-> d[k]]

MaxJobs == 1         \* job posts created through the API
MaxCandidates == 2   \* candidates created through the API

SeedJobCount == Cardinality(DOMAIN SeededDatabase["jobs"])
SeedCandidateCount == Cardinality(DOMAIN SeededDatabase["candidates"])

\* POST /jobs
create_job(token, job) ==
    /\ request' = [op |-> "create_job", token |-> token, job |-> job]
    /\ LET auth == get_current_user(DATABASE, token)
       IN  IF auth["status"] # 200
             THEN response' = auth /\ UNCHANGED DATABASE
             ELSE /\ Cardinality(DOMAIN DATABASE["jobs"]) < SeedJobCount + MaxJobs
                  /\ LET saved == create_job_post(DATABASE, job, org_id_of(DATABASE, token), clock)
                     IN  /\ DATABASE' = saved["db"]
                         /\ response' = [status |-> 201, body |-> JobPost(saved["doc"])]
    /\ UNCHANGED <<clock, get_gemini_response, probe_vars>>

\* POST /jobs/{job_id}/activate
activate_job(token, job_id) ==
    /\ request' = [op |-> "activate_job", token |-> token, job_id |-> job_id]
    /\ LET auth == get_current_user(DATABASE, token)
           db_job == get_job_post(DATABASE, job_id)
       IN  IF auth["status"] # 200
             THEN response' = auth /\ UNCHANGED DATABASE
           ELSE IF db_job = NoRecord
             THEN response' = HttpError(404, "Job not found") /\ UNCHANGED DATABASE
           ELSE IF Get(db_job, "org_id", NoneStr) # org_id_of(DATABASE, token)
             THEN response' = HttpError(403, "Access denied") /\ UNCHANGED DATABASE
           ELSE LET updated == update_job_post(DATABASE, job_id, [status |-> "ACTIVE"], clock)
                IN  /\ DATABASE' = updated["db"]
                    /\ response' = [status |-> 200, body |-> JobPost(updated["doc"])]
    /\ UNCHANGED <<clock, get_gemini_response, probe_vars>>

-----------------------------------------------------------------------------
(* src/main.py: applications *)

\* v.isoformat(): a time as it is written into a JSON response
isoformat(t) == "T" \o ToString(t)

TimeKeys == {"application_date", "created_at", "updated_at"}

\* _sanitize of apply_public: the times of the record become text.
sanitize(obj) ==
    [k \in DOMAIN obj |-> IF k \in TimeKeys THEN isoformat(obj[k]) ELSE obj[k]]

TruncationNote ==
    <<".",".",".","[","t","r","u","n","c","a","t","e","d"," ","f","o","r"," ","A","P","I"," ","r","e","s","p","o","n","s","e","]">>

\* _sanitize of upload_cv: as above, and a cv_text longer than 500 characters
\* is cut to a preview.
sanitize_preview(obj) ==
    [k \in DOMAIN obj |->
        IF k \in TimeKeys THEN isoformat(obj[k])
        ELSE IF k = "cv_text" /\ Len(obj[k]) > 500
          THEN SubSeq(obj[k], 1, 500) \o TruncationNote
        ELSE obj[k]]

\* crud.DATABASE.setdefault("candidates_ai", {}); DATABASE["candidates_ai"][id] = ai
\* Variant: the first score of a candidate is kept.
attach_ai_keeping(db, candidate_id, ai_result) ==
    LET with_map == SetDefault(db, "candidates_ai", <<>>)
    IN  [with_map EXCEPT !["candidates_ai"] = SetDefault(@, candidate_id, ai_result)]

attach_ai(db, candidate_id, ai_result) ==
    LET with_map == SetDefault(db, "candidates_ai", <<>>)
    IN  [with_map EXCEPT !["candidates_ai"] = Set(@, candidate_id, ai_result)]

\* What one call of get_gemini_response may do in this process.
GeminiCalls ==
    IF get_gemini_response
      THEN {GeminiRaises, GeminiReply("Strengths: ...")}
      ELSE {GeminiUnavailable}

\* Variant: applications are taken for every job id.
job_always_open(job) == TRUE
\* Variant: the job only has to exist.
job_exists(job) == job # NoRecord
\* not (not job or job.get("status") != "ACTIVE")
job_is_active(job) == job # NoRecord /\ Get(job, "status", NoneStr) = "ACTIVE"

\* POST /jobs/{job_id}/apply_public
apply_public(job_id, payload, gemini) ==
    /\ request' = [op |-> "apply_public", job_id |-> job_id, payload |-> payload]
    /\ LET job == get_job_post(DATABASE, job_id)
       IN  IF ~ job_is_active(job)
             THEN /\ response' = HttpError(400, "Invalid or inactive Job Post ID")
                  /\ UNCHANGED DATABASE
             ELSE
               /\ Cardinality(DOMAIN DATABASE["candidates"]) < SeedCandidateCount + MaxCandidates
               /\ LET text == Get(payload, "cv_text", <<>>)
                      candidate_data ==
                          [full_name |-> Get(payload, "full_name", NoneStr),
                           email |-> Get(payload, "email", None),
                           job_post_id |-> job_id,
                           cv_text |-> text]
                      saved == create_candidate(DATABASE, candidate_data, job_id, clock)
                      ai_result == score_cv(text, gemini)
                  IN  IF lower_raises(text)
                        THEN /\ DATABASE' = saved["db"]
                             /\ response' = HttpError(500, "Internal Server Error")
                        ELSE /\ DATABASE' = attach_ai(saved["db"], saved["doc"]["id"], ai_result)
                             /\ response' = [status |-> 200,
                                             body |-> [candidate |-> sanitize(saved["doc"]),
                                                       ai |-> ai_result]]
    /\ UNCHANGED <<clock, get_gemini_response, probe_vars>>

\* An uploaded file: its name, its bytes, and whether it can be read and
\* written to the uploads directory.
UploadFile(filename, contents, readable) ==
    [filename |-> filename, contents |-> contents, readable |-> readable]

\* What PyPDF2 does with a saved file: the import failed at start-up, the
\* reader raises, or it returns the text of each page (None for a page whose
\* extraction fails or finds nothing).
PdfUnavailable == [kind |-> "unavailable"]
PdfRaises == [kind |-> "raises"]
PdfPages(pages) == [kind |-> "pages", pages |-> pages]

\* A byte that is not valid UTF-8.
InvalidByte == "\\xff"

\* contents.decode("utf-8", errors="ignore")
decode(contents) == SelectSeq(contents, LAMBDA b : b # InvalidByte)

\* Path(name).name: what follows the last "/"
basename(name) ==
    LET slashes == {i \in 1..Len(name) : name[i] = "/"}
    IN  IF slashes = {} THEN name
        ELSE SubSeq(name, (CHOOSE i \in slashes : \A j \in slashes : j <= i) + 1, Len(name))

endswith(s, suffix) ==
    Len(s) >= Len(suffix) /\ SubSeq(s, Len(s) - Len(suffix) + 1, Len(s)) = suffix

\* "\n\n".join(pages)
RECURSIVE join_pages(_)
join_pages(pages) ==
    IF pages = <<>> THEN <<>>
    ELSE IF Len(pages) = 1 THEN or_empty(pages[1])
    ELSE or_empty(pages[1]) \o <<"\n","\n">> \o join_pages(Tail(pages))

\* The text upload_cv extracts from the uploaded file.
extract_text(filename, contents, pdf) ==
    LET is_pdf == \/ endswith(lower(filename), <<".","p","d","f">>)
                  \/ SubSeq(contents, 1, Min(4, Len(contents))) = <<"%","P","D","F">>
    IN  IF is_pdf /\ pdf["kind"] = "pages" THEN strip(join_pages(pdf["pages"]))
        ELSE decode(contents)

\* An f-string's rendering of a text that may be None.
fstr(x) == IF x = None THEN <<"N","o","n","e">> ELSE x

\* Variant: only the extracted text is scored.
prompt_text_cv_only(job_desc, text) == fstr(text)

\* f"Job Description:\n{job_desc}\n\nCV Text:\n{cv_text}"
prompt_text(job_desc, text) ==
    <<"J","o","b"," ","D","e","s","c","r","i","p","t","i","o","n",":","\n">> \o fstr(job_desc)
      \o <<"\n","\n","C","V"," ","T","e","x","t",":","\n">> \o fstr(text)

\* uuid4().hex[:8] of the n-th upload
hex8(n) == uuid4("hex", n)

\* POST /candidates/{job_id}/upload_cv
upload_cv(job_id, file, full_name, email, token, pdf, gemini) ==
    /\ request' = [op |-> "upload_cv", job_id |-> job_id, file |-> file,
                   full_name |-> full_name, email |-> email, token |-> token]
    /\ LET auth == get_current_user(DATABASE, token)
           job == get_job_post(DATABASE, job_id)
       IN  IF auth["status"] # 200
             THEN response' = auth /\ UNCHANGED DATABASE
           ELSE IF ~ job_is_active(job)
             THEN /\ response' = HttpError(400, "Invalid or inactive job posting")
                  /\ UNCHANGED DATABASE
           ELSE IF ~ file["readable"]
             THEN /\ response' = HttpError(400, "Error saving or reading uploaded file")
                  /\ UNCHANGED DATABASE
           ELSE
             /\ Cardinality(DOMAIN DATABASE["candidates"]) < SeedCandidateCount + MaxCandidates
             /\ LET n == Cardinality(DOMAIN DATABASE["candidates"]) + 1
                    filename == basename(IF file["filename"] = <<>>
                                           THEN <<"u","p","l","o","a","d">>
                                           ELSE file["filename"])
                    saved_path == <<"uploads", uuid4("upload", n), filename>>
                    text == extract_text(filename, file["contents"], pdf)
                    candidate_data ==
                        [full_name |-> IF full_name # "" THEN full_name
                                       ELSE "Candidate " \o hex8(n),
                         email |-> IF email # <<>> THEN email
                                   ELSE <<"c","a","n","d","i","d","a","t","e","+">> \o <<hex8(n)>>
                                          \o <<"@","a","p","p","l","i","c","a","n","t",".","l","o","c","a","l">>,
                         job_post_id |-> job_id,
                         cv_text |-> text,
                         resume_url |-> saved_path,
                         stage |-> "APPLIED",
                         application_date |-> clock]
                    saved == create_candidate(DATABASE, candidate_data, job_id, clock)
                    ai_result == score_cv(prompt_text(Get(job, "description", <<>>), text), gemini)
                    screening ==
                        [candidate_id |-> saved["doc"]["id"],
                         job_id |-> job_id,
                         ats_score |-> ai_result["ats_score"],
                         feedback |-> ai_result["feedback"],
                         detailed_feedback |-> Get(ai_result, "detailed_feedback", NoneStr),
                         created_at |-> clock]
                    screened == create_screening_result(saved["db"], screening, clock)
                    attached == attach_ai(screened["db"], saved["doc"]["id"], ai_result)
                    cand == [saved["doc"] EXCEPT !["resume_url"] = saved_path,
                                                !["cv_text"] = text,
                                                !["updated_at"] = clock]
                IN  /\ DATABASE' = [attached EXCEPT !["candidates"] = Set(@, cand["id"], cand)]
                    /\ response' = [status |-> 200,
                                    body |-> [candidate |-> sanitize_preview(saved["doc"]),
                                              ai |-> ai_result]]
    /\ UNCHANGED <<clock, get_gemini_response, probe_vars>>

\* POST /ai/agent/{session_id}/message
ai_agent_message(session_id, payload) ==
    /\ request' = [op |-> "ai_agent_message", session_id |-> session_id, payload |-> payload]
    /\ LET message == Get(payload, "message", <<>>)
       IN  IF message \in {<<>>, None, JsonNumber(0)}
             THEN response' = HttpError(400, "message is required")
           ELSE IF lower_raises(message)
             THEN response' = HttpError(500, "Internal Server Error")
           ELSE response' = [status |-> 200,
                             body |-> [reply |-> ai_agent_response(session_id, message)]]
    /\ UNCHANGED <<DATABASE, clock, get_gemini_response, probe_vars>>

-----------------------------------------------------------------------------
(* src/main.py: reading jobs and candidates, online assessments *)

\* GET /jobs
read_jobs(token) ==
    /\ request' = [op |-> "read_jobs", token |-> token]
    /\ LET auth == get_current_user(DATABASE, token)
       IN  IF auth["status"] # 200
             THEN response' = auth
             ELSE response' =
                    [status |-> 200,
                     body |-> {JobPost(DATABASE["jobs"][j]) :
                                 j \in get_all_job_posts(DATABASE, org_id_of(DATABASE, token))}]
    /\ UNCHANGED <<DATABASE, clock, get_gemini_response, probe_vars>>

\* GET /jobs/{job_id}
read_job(token, job_id) ==
    /\ request' = [op |-> "read_job", token |-> token, job_id |-> job_id]
    /\ LET auth == get_current_user(DATABASE, token)
           db_job_data == get_job_post(DATABASE, job_id)
       IN  IF auth["status"] # 200
             THEN response' = auth
           ELSE IF db_job_data = NoRecord
             THEN response' = HttpError(404, "Job post not found")
           ELSE IF Get(db_job_data, "org_id", NoneStr) # org_id_of(DATABASE, token)
             THEN response' = HttpError(403, "Access denied to job post")
           ELSE response' = [status |-> 200, body |-> JobPost(db_job_data)]
    /\ UNCHANGED <<DATABASE, clock, get_gemini_response, probe_vars>>

\* schemas.Candidate(**d): the response model keeps the fields of a candidate.
Candidate(d) ==
    [k \in DOMAIN d \cap {"id", "job_post_id", "full_name", "email", "cv_text",
                          "resume_url", "stage", "application_date",
                          "created_at", "updated_at"} |-> d[k]]

\* GET /jobs/{job_id}/candidates
get_candidates_for_job(token, job_id) ==
    /\ request' = [op |-> "get_candidates_for_job", token |-> token, job_id |-> job_id]
    /\ LET auth == get_current_user(DATABASE, token)
           db_job == get_job_post(DATABASE, job_id)
       IN  IF auth["status"] # 200
             THEN response' = auth
           ELSE IF db_job = NoRecord
             THEN response' = HttpError(404, "Job post not found")
           ELSE IF Get(db_job, "org_id", NoneStr) # org_id_of(DATABASE, token)
             THEN response' = HttpError(403, "Access denied to view candidates for this job")
           ELSE response' =
                  [status |-> 200,
                   body |-> {Candidate(DATABASE["candidates"][c]) :
                               c \in get_candidates_by_job(DATABASE, job_id)}]
    /\ UNCHANGED <<DATABASE, clock, get_gemini_response, probe_vars>>

\* crud.DATABASE.get("candidates_ai", {}).get(candidate_id)
ai_data_of(db, candidate_id) ==
    IF "candidates_ai" \in DOMAIN db /\ candidate_id \in DOMAIN db["candidates_ai"]
      THEN db["candidates_ai"][candidate_id]
      ELSE NoRecord

\* GET /candidates/{candidate_id}
get_candidate_details(token, candidate_id) ==
    /\ request' = [op |-> "get_candidate_details", token |-> token,
                   candidate_id |-> candidate_id]
    /\ LET auth == get_current_user(DATABASE, token)
           db_candidate == get_candidate(DATABASE, candidate_id)
           db_job == get_job_post(DATABASE, Get(db_candidate, "job_post_id", ""))
           ai_data == ai_data_of(DATABASE, candidate_id)
       IN  IF auth["status"] # 200
             THEN response' = auth
           ELSE IF db_candidate = NoRecord
             THEN response' = HttpError(404, "Candidate not found")
           ELSE IF db_job = NoRecord
                   \/ Get(db_job, "org_id", NoneStr) # org_id_of(DATABASE, token)
             THEN response' = HttpError(403, "Access denied to view this candidate")
           ELSE response' =
                  [status |-> 200,
                   body |-> IF ai_data # NoRecord /\ DOMAIN ai_data # {}
                              THEN Set(sanitize(db_candidate), "ai", ai_data)
                              ELSE sanitize(db_candidate)]
    /\ UNCHANGED <<DATABASE, clock, get_gemini_response, probe_vars>>

\* _sanitize_assessment of schedule_oa: the times of the record become text.
sanitize_assessment(obj) ==
    [k \in DOMAIN obj |->
        IF k \in {"sent_at", "created_at", "updated_at"} THEN isoformat(obj[k]) ELSE obj[k]]

MaxAssessments == 2   \* assessments created through the API

SeedAssessmentCount == Cardinality(DOMAIN SeededDatabase["assessments"])

\* Variant: the caller's organization is not compared with the job's.
other_org_allowed(job, org_id) == job = NoRecord
\* not job or job.get("org_id") != current_user.org_id
oa_access_denied(job, org_id) == job = NoRecord \/ Get(job, "org_id", NoneStr) # org_id

\* POST /candidates/{candidate_id}/schedule_oa
schedule_oa(token, candidate_id, num_questions, gemini) ==
    /\ request' = [op |-> "schedule_oa", token |-> token, candidate_id |-> candidate_id,
                   num_questions |-> num_questions]
    /\ LET auth == get_current_user(DATABASE, token)
           cand == get_candidate(DATABASE, candidate_id)
           job == get_job_post(DATABASE, Get(cand, "job_post_id", None))
       IN  IF auth["status"] # 200
             THEN response' = auth /\ UNCHANGED DATABASE
           ELSE IF cand = NoRecord
             THEN response' = HttpError(404, "Candidate not found") /\ UNCHANGED DATABASE
           ELSE IF oa_access_denied(job, org_id_of(DATABASE, token))
             THEN /\ response' = HttpError(403, "Access denied to generate OA for this candidate")
                  /\ UNCHANGED DATABASE
           ELSE
             /\ Cardinality(DOMAIN DATABASE["assessments"]) < SeedAssessmentCount + MaxAssessments
             /\ LET questions == generate_assessment_questions(
                                     Get(cand, "cv_text", <<>>),
                                     Get(job, "description", <<>>), num_questions, gemini)
                    assessment_data ==
                        [candidate_id |-> candidate_id,
                         job_id |-> Get(job, "id", None),
                         generated_questions |-> questions,
                         status |-> "SENT"]
                    assessment == create_assessment(DATABASE, assessment_data, clock)
                    staged == update_candidate_stage(assessment["db"], candidate_id,
                                                     "ASSESSMENT_SENT", clock)
                IN  /\ DATABASE' = staged["db"]
                    /\ response' = [status |-> 200,
                                    body |-> [assessment |-> sanitize_assessment(assessment["doc"])]]
    /\ UNCHANGED <<clock, get_gemini_response, probe_vars>>

-----------------------------------------------------------------------------
(* src/main.py: analytics *)

\* The ids of a collection are numbered in insertion order.
IdNumber(kind, id) ==
    CHOOSE n \in 1..Cardinality(DOMAIN SeededDatabase[kind]) + MaxCandidates : uuid4(kind, n) = id

\* candidates_by_stage[stage] = candidates_by_stage.get(stage, 0) + 1
candidates_by_stage(db, candidates) ==
    [st \in {Get(db["candidates"][c], "stage", "APPLIED") : c \in candidates} |->
        Cardinality({c \in candidates : Get(db["candidates"][c], "stage", "APPLIED") = st})]

\* if ai_data: the stored AI result is a non-empty dict
has_ai(db, c) == ai_data_of(db, c) # NoRecord /\ DOMAIN ai_data_of(db, c) # {}

\* sum(all_scores)
RECURSIVE sum_scores(_, _)
sum_scores(db, scored) ==
    IF scored = {} THEN 0
    ELSE LET c == CHOOSE x \in scored : TRUE
         IN  ai_data_of(db, c)["ats_score"] + sum_scores(db, scored \ {c})

\* round(total / count, 2), in hundredths; a tie goes to the even hundredth.
round2(total, count) ==
    LET q == (total * 100) \div count
        r == (total * 100) % count
    IN  IF 2 * r < count THEN q
        ELSE IF 2 * r > count THEN q + 1
        ELSE IF q % 2 = 0 THEN q ELSE q + 1

\* The candidates of the jobs of one organization.
candidates_of_org(db, org_id) ==
    UNION {get_candidates_by_job(db, j) : j \in get_all_job_posts(db, org_id)}

\* Variant: the summary creates the AI map when the store has none.
get_analytics_summary_caching(token) ==
    /\ request' = [op |-> "get_analytics_summary", token |-> token]
    /\ LET auth == get_current_user(DATABASE, token)
       IN  IF auth["status"] # 200
             THEN response' = auth /\ UNCHANGED DATABASE
             ELSE /\ DATABASE' = SetDefault(DATABASE, "candidates_ai", <<>>)
                  /\ response' = [status |-> 200,
                                  body |-> [total_candidates |->
                                     Cardinality(candidates_of_org(DATABASE, org_id_of(DATABASE, token)))]]
    /\ UNCHANGED <<clock, get_gemini_response, probe_vars>>

\* GET /analytics/summary
get_analytics_summary(token) ==
    /\ request' = [op |-> "get_analytics_summary", token |-> token]
    /\ LET auth == get_current_user(DATABASE, token)
           all_jobs == get_all_job_posts(DATABASE, org_id_of(DATABASE, token))
           active_jobs == {j \in all_jobs : Get(DATABASE["jobs"][j], "status", NoneStr) = "ACTIVE"}
           candidates == candidates_of_org(DATABASE, org_id_of(DATABASE, token))
           scored == {c \in candidates :
                        has_ai(DATABASE, c) /\ "ats_score" \in DOMAIN ai_data_of(DATABASE, c)}
       IN  IF auth["status"] # 200
             THEN response' = auth
             ELSE response' =
                    [status |-> 200,
                     body |-> [total_jobs |-> Cardinality(all_jobs),
                               active_jobs |-> Cardinality(active_jobs),
                               total_candidates |-> Cardinality(candidates),
                               candidates_by_stage |-> candidates_by_stage(DATABASE, candidates),
                               avg_ats_score |->
                                   IF scored = {} THEN 0
                                   ELSE round2(sum_scores(DATABASE, scored), Cardinality(scored)),
                               assessments_sent |-> Cardinality(DOMAIN DATABASE["assessments"]),
                               interviews_scheduled |-> Cardinality(DOMAIN DATABASE["interviews"])]]
    /\ UNCHANGED <<DATABASE, clock, get_gemini_response, probe_vars>>

\* The bucket of scores_distribution a score falls in.
score_bucket(score) ==
    IF score <= 25 THEN "0-25" ELSE IF score <= 50 THEN "26-50"
    ELSE IF score <= 75 THEN "51-75" ELSE "76-100"

\* sorted(top_candidates, key=ats_score, reverse=True): the highest score
\* first, and among equal scores the candidate stored first.
RECURSIVE sorted_by_score(_, _)
sorted_by_score(db, scored) ==
    IF scored = {} THEN <<>>
    ELSE LET score(c) == Get(ai_data_of(db, c), "ats_score", 0)
             best == CHOOSE c \in scored : \A d \in scored \ {c} :
                        \/ score(c) > score(d)
                        \/ (score(c) = score(d)
                             /\ IdNumber("candidates", c) < IdNumber("candidates", d))
         IN  <<[id |-> best,
                name |-> Get(db["candidates"][best], "full_name", NoneStr),
                email |-> Get(db["candidates"][best], "email", None),
                stage |-> Get(db["candidates"][best], "stage", "APPLIED"),
                ats_score |-> score(best)]>>
               \o sorted_by_score(db, scored \ {best})

\* GET /analytics/jobs/{job_id}
get_job_analytics(token, job_id) ==
    /\ request' = [op |-> "get_job_analytics", token |-> token, job_id |-> job_id]
    /\ LET auth == get_current_user(DATABASE, token)
           job == get_job_post(DATABASE, job_id)
           candidates == get_candidates_by_job(DATABASE, job_id)
           scored == {c \in candidates : has_ai(DATABASE, c)}
       IN  IF auth["status"] # 200
             THEN response' = auth
           ELSE IF job = NoRecord \/ Get(job, "org_id", NoneStr) # org_id_of(DATABASE, token)
             THEN response' = HttpError(404, "Job not found")
           ELSE response' =
                  [status |-> 200,
                   body |-> [job_title |-> Get(job, "title", NoneStr),
                             job_status |-> Get(job, "status", NoneStr),
                             total_applications |-> Cardinality(candidates),
                             candidates_by_stage |-> candidates_by_stage(DATABASE, candidates),
                             score_distribution |->
                                 [b \in {"0-25", "26-50", "51-75", "76-100"} |->
                                     Cardinality({c \in scored :
                                         score_bucket(Get(ai_data_of(DATABASE, c), "ats_score", 0)) = b})],
                             top_candidates |-> Slice(sorted_by_score(DATABASE, scored), 10)]]
    /\ UNCHANGED <<DATABASE, clock, get_gemini_response, probe_vars>>

\* The stages the funnel counts, by the key they are counted under.
FunnelStages ==
    [applied |-> "APPLIED", screening_passed |-> "SCREENING_PASSED",
     assessment_sent |-> "ASSESSMENT_SENT", assessment_completed |-> "ASSESSMENT_COMPLETED",
     interview_scheduled |-> "INTERVIEW_SCHEDULED", offer_extended |-> "OFFER_EXTENDED",
     hired |-> "HIRED"]

\* str.upper() of a stage: the stage names written in lower case become the
\* upper-case ones, and every other stage the store holds is upper case.
upper_stage(stage) ==
    IF stage \in DOMAIN FunnelStages THEN FunnelStages[stage] ELSE stage

\* GET /analytics/hiring_funnel
get_hiring_funnel(token) ==
    /\ request' = [op |-> "get_hiring_funnel", token |-> token]
    /\ LET auth == get_current_user(DATABASE, token)
           candidates == candidates_of_org(DATABASE, org_id_of(DATABASE, token))
       IN  IF auth["status"] # 200
             THEN response' = auth
             ELSE response' =
                    [status |-> 200,
                     body |-> [k \in DOMAIN FunnelStages |->
                                 Cardinality({c \in candidates :
                                     upper_stage(Get(DATABASE["candidates"][c], "stage", "APPLIED"))
                                       = FunnelStages[k]})]]
    /\ UNCHANGED <<DATABASE, clock, get_gemini_response, probe_vars>>

MaxClock == 1   \* the latest hour the clock reaches

\* Time passes between two requests.
Tick ==
    /\ clock < MaxClock
    /\ clock' = clock + 1
    /\ UNCHANGED <<DATABASE, get_gemini_response, request, response, probe_vars>>

-----------------------------------------------------------------------------
(* The application after start-up (main.py runs init_dummy_data() on import) *)

InitStore ==
    /\ DATABASE = SeededDatabase
    /\ clock = 0
    /\ request = [op |-> "startup"]
    /\ response = [status |-> 0]

\* The variables of the specifications that probe one function or run the
\* demo client, when they are not in use.
IdleScore == cv_text = None /\ score_log = {}
NotReturned == [returned |-> FALSE]
Returned(value) == [returned |-> TRUE, value |-> value]

IdleQuestions == oa_args = NoRecord /\ oa_questions = NotReturned
IdleClient == pc = "idle" /\ demo = NoRecord /\ threads = <<>>

-----------------------------------------------------------------------------
(* The authentication specification: registration, login and users/me.     *)

NewEmail == <<"n","e","w","@","a","c","m","e",".","i","o">>
NewEmailUpper == <<"N","e","w","@","A","c","m","e",".","I","O">>
UnknownEmail == <<"n","o","b","o","d","y","@","a","c","m","e",".","i","o">>

RegisterEmails == {NewEmail, TEST_EMAIL, SeedUser1["email"]}
RegisterPasswords == {"s3cret", TEST_PASSWORD}
LoginEmails == RegisterEmails \cup {NewEmailUpper, UnknownEmail}
LoginPasswords == RegisterPasswords \cup {SeedUser1["password"]}
OrgNames == {NoneStr, "Acme"}

UserCreate(email, password, org_name) ==
    [full_name |-> "Demo User", email |-> email, password |-> password, org_name |-> org_name]

AcceptHeaders == {
    <<"*","/","*">>,
    <<"T","e","x","t","/","H","T","M","L">>,
    <<>> }

BearerTokens ==
    {TEST_TOKEN, "users-1", "no-such-token"} \cup
    {uuid4("users", n) : n \in (SeedUserCount + 1)..(SeedUserCount + MaxRegistered)}

InitAuth ==
    /\ InitStore
    /\ get_gemini_response = FALSE
    /\ IdleScore /\ IdleQuestions /\ IdleClient

NextAuth ==
    \/ \E e \in RegisterEmails, p \in RegisterPasswords, o \in OrgNames :
          register_user(UserCreate(e, p, o))
    \/ \E e \in LoginEmails, p \in LoginPasswords, a \in AcceptHeaders :
          login_for_access_token(e, p, a)
    \/ \E t \in BearerTokens : read_users_me(t)

SpecAuth == InitAuth /\ [][NextAuth]_vars

-----------------------------------------------------------------------------
(* Inputs of the scoring specification *)

MaxWords == 3      \* fragments in a generated CV text
MaxPad == 2        \* filler blocks appended to a generated CV text
PadUnit == 500     \* characters in one filler block

\* "Python", "Python, FastAPI, Docker", "mysql leader", a line naming all nine
\* keywords, a space and a newline.
CvFragments == {
    <<"P","y","t","h","o","n">>,
    <<"P","y","t","h","o","n",","," ","F","a","s","t","A","P","I",","," ","D","o","c","k","e","r">>,
    <<"m","y","s","q","l"," ","l","e","a","d","e","r">>,
    <<"P","y","t","h","o","n"," ","F","a","s","t","A","P","I"," ","S","Q","L"," ","D","o","c","k","e","r"," ","A","W","S"," ","R","e","a","c","t"," ","L","e","a","d"," ","M","a","c","h","i","n","e"," ","L","e","a","r","n","i","n","g"," ","N","L","P">>,
    <<" ">>,
    <<"\n">> }

PadChars == {"x", " "}

\* Texts that name no keyword, in upper case, around the lengths where the
\* length score leaves its floor of 10 and where the weighted score moves.
PlainLengths == {1, 5, 109, 110, 124, 125, 130}
PlainTexts == {[i \in 1..n |-> "X"] : n \in PlainLengths}

RECURSIVE Flatten(_)
Flatten(ws) == IF ws = <<>> THEN <<>> ELSE Head(ws) \o Flatten(Tail(ws))

FragmentSeqs == UNION {[1..n -> CvFragments] : n \in 0..MaxWords}

Padding(p, c) == [i \in 1..(p * PadUnit) |-> c]

\* None, every text of up to MaxWords fragments, and the empty text and each
\* single fragment followed by up to MaxPad filler blocks.
CvInputs ==
    {None} \cup
    {Flatten(ws) : ws \in FragmentSeqs} \cup
    {f \o Padding(p, c) : f \in CvFragments \cup {<<>>}, p \in 1..MaxPad, c \in PadChars} \cup
    PlainTexts


GeminiReplies == {"Strengths: ...", "Weaknesses: ..."}
GeminiOutcomes == {GeminiUnavailable, GeminiRaises} \cup {GeminiReply(r) : r \in GeminiReplies}

-----------------------------------------------------------------------------
(* The scoring specification: one text, scored under every outcome of the *)
(* optional enrichment.                                                    *)

InitScore ==
    /\ InitStore
    /\ get_gemini_response = FALSE
    /\ IdleQuestions /\ IdleClient
    /\ cv_text \in CvInputs
    /\ score_log = {}

ScoreCall(gemini) ==
    /\ score_log' = score_log \cup {[gemini |-> gemini, result |-> score_cv(cv_text, gemini)]}
    /\ score_log' # score_log
    /\ UNCHANGED <<cv_text, api_vars, oa_vars, client_vars>>

NextScore == \E gemini \in GeminiOutcomes : ScoreCall(gemini)

SpecScore == InitScore /\ [][NextScore]_vars

-----------------------------------------------------------------------------
(* The question specification: generate_assessment_questions on one set of *)
(* arguments.                                                              *)

MaxQuestions == 6     \* the largest number of questions asked for
MaxReplyItems == 6    \* the longest list the external model replies with

JobDescriptions == {
    None,
    <<>>,
    <<"W","o","r","k"," ","w","i","t","h"," ","P","y","t","h","o","n"," ","a","n","d"," ","F","a","s","t","A","P","I">>,
    <<"R","e","a","c","t"," ","f","r","o","n","t","e","n","d"," ","w","o","r","k">>,
    <<"P","y","t","h","o","n"," ","a","n","d"," ","R","e","a","c","t">>,
    <<"T","e","s","t"," ","r","o","l","e">> }

QuestionCounts == (-1)..MaxQuestions

ModelQuestion(i) == [question |-> "Model question " \o ToString(i), type |-> "technical"]

OaGeminiOutcomes ==
    {GeminiUnavailable, GeminiRaises, GeminiReply(JsonInvalid), GeminiReply(JsonObject)} \cup
    {GeminiReply(JsonArray([i \in 1..k |-> ModelQuestion(i)])) : k \in 0..MaxReplyItems}

InitQuestions ==
    /\ InitStore
    /\ get_gemini_response = FALSE
    /\ IdleScore /\ IdleClient
    /\ oa_args \in [cv_text : {None, SeedCandidate1["cv_text"]},
                    job_description : JobDescriptions,
                    n : QuestionCounts,
                    gemini : OaGeminiOutcomes]
    /\ oa_questions = NotReturned

GenerateQuestions ==
    /\ ~ oa_questions["returned"]
    /\ oa_questions' = Returned(generate_assessment_questions(oa_args["cv_text"],
                           oa_args["job_description"], oa_args["n"], oa_args["gemini"]))
    /\ UNCHANGED <<oa_args, api_vars, score_vars, client_vars>>

NextQuestions == GenerateQuestions

SpecQuestions == InitQuestions /\ [][NextQuestions]_vars

-----------------------------------------------------------------------------
(* Inputs of the job and application requests *)

\* job.model_dump() of POST /jobs: the payload of the demo client, with or
\* without a status.  The title tells the status the job was created with.
JobPostCreate(title, description, job_status) ==
    LET base == [title |-> title, description |-> description, location |-> "Remote",
                 required_skills |-> <<"python", "fastapi">>, min_experience_years |-> 2]
    IN  IF job_status = NoneStr THEN base ELSE Set(base, "status", job_status)

DemoDescription ==
    <<"W","o","r","k"," ","w","i","t","h"," ","P","y","t","h","o","n"," ","a","n","d"," ","F","a","s","t","A","P","I">>

DraftJob == JobPostCreate("Created without status", DemoDescription, NoneStr)
ClosedJob == JobPostCreate("Created CLOSED", DemoDescription, "CLOSED")
ActiveJob == JobPostCreate("Created ACTIVE", DemoDescription, "ACTIVE")

\* CV texts of about 40 characters naming exactly python, fastapi and docker.
DemoCv ==
    <<"S","k","i","l","l","e","d"," ","i","n"," ","P","y","t","h","o","n",","," ","F","a","s","t","A","P","I"," ","a","n","d"," ","D","o","c","k","e","r",".">>
DemoCvReordered ==
    <<"D","o","c","k","e","r",","," ","F","a","s","t","A","P","I",","," ","P","y","t","h","o","n",":"," ","f","i","v","e"," ","y","e","a","r","s"," ","o","f"," ","w","o","r","k">>

ApplicantEmail == <<"a","l","i","c","e","@","e","x","a","m","p","l","e",".","c","o","m">>

NewJobId == uuid4("jobs", SeedJobCount + 1)

-----------------------------------------------------------------------------
(* The job specification: register, create and activate job posts as time *)
(* passes.                                                                 *)

JobTokens == {TEST_TOKEN, uuid4("users", SeedUserCount + 1), "no-such-token"}
JobIds == {"jobs-1", "no-such-job"} \cup
          {uuid4("jobs", n) : n \in (SeedJobCount + 1)..(SeedJobCount + MaxJobs)}

InitJobs ==
    /\ InitStore
    /\ get_gemini_response = FALSE
    /\ IdleScore /\ IdleQuestions /\ IdleClient

NextJobs ==
    \/ register_user(UserCreate(NewEmail, "s3cret", "Acme"))
    \/ \E t \in JobTokens, job \in {DraftJob, ClosedJob} : create_job(t, job)
    \/ \E t \in JobTokens, j \in JobIds : activate_job(t, j)
    \/ Tick

SpecJobs == InitJobs /\ [][NextJobs]_vars

-----------------------------------------------------------------------------
(* The application specification: candidates apply, by payload or by file, *)
(* to job posts that exist or not and are ACTIVE or not.                   *)

ApplyTokens == {TEST_TOKEN, "no-such-token"}
ApplyJobIds == {"jobs-1", NewJobId, "no-such-job"}

ApplyPayloads ==
    { [full_name |-> "Alice", email |-> ApplicantEmail, cv_text |-> DemoCv],
      [full_name |-> "Bob"] }

\* A text file, the same file when the uploads directory cannot be written,
\* and a PDF whose second page has no text.
Uploads ==
    { [file |-> UploadFile(<<"r","e","s","u","m","e",".","t","x","t">>, DemoCv, TRUE),
       pdf |-> PdfUnavailable],
      [file |-> UploadFile(<<"r","e","s","u","m","e",".","t","x","t">>, DemoCv, FALSE),
       pdf |-> PdfUnavailable],
      [file |-> UploadFile(<<"c","v",".","p","d","f">>,
                           <<"%","P","D","F","-","1",".","4",InvalidByte>>, TRUE),
       pdf |-> PdfPages(<<DemoCv, None>>)] }

InitApply ==
    /\ InitStore
    /\ get_gemini_response \in BOOLEAN
    /\ IdleScore /\ IdleQuestions /\ IdleClient

NextApply ==
    \/ \E job \in {DraftJob, ClosedJob} : create_job(TEST_TOKEN, job)
    \/ activate_job(TEST_TOKEN, NewJobId)
    \/ \E j \in ApplyJobIds, payload \in ApplyPayloads, g \in GeminiCalls :
          apply_public(j, payload, g)
    \/ \E j \in ApplyJobIds, u \in Uploads, t \in ApplyTokens, g \in GeminiCalls :
          upload_cv(j, u["file"], "", <<>>, t, u["pdf"], g)

SpecApply == InitApply /\ [][NextApply]_vars

-----------------------------------------------------------------------------
(* The demo client (src/tests/demo_run.py, with the registration of        *)
(* src/tests/integration_test.py): it registers a user with an             *)
(* organization, logs in, creates a job, activates it and applies to it,   *)
(* sending each request once and reading its response before the next.     *)

DemoSteps == <<"register", "login", "create", "activate", "apply", "done">>

DemoOp(step) ==
    CASE step = "register" -> "register_user"
      [] step = "login" -> "login_for_access_token"
      [] step = "create" -> "create_job"
      [] step = "activate" -> "activate_job"
      [] step = "apply" -> "apply_public"
      [] OTHER -> "none"

DemoExpected(step) == IF step \in {"register", "create"} THEN 201 ELSE 200

InitDemo ==
    /\ InitStore
    /\ get_gemini_response \in BOOLEAN
    /\ IdleScore /\ IdleQuestions
    /\ threads = <<>>
    /\ pc = "register"
    /\ demo \in [password : {"s3cret", "hunter2"},
                 org_name : {"Acme", "Globex"},
                 accept : {<<"*","/","*">>,
                           <<"a","p","p","l","i","c","a","t","i","o","n","/","j","s","o","n">>},
                 job : {DraftJob, ClosedJob, ActiveJob},
                 cv : {DemoCv, DemoCvReordered},
                 token : {NoneStr},
                 job_id : {NoneStr}]

\* The client sends the request of the step it is at.
DemoSend ==
    /\ request["op"] # DemoOp(pc)
    /\ \/ pc = "register"
            /\ register_user(UserCreate(NewEmail, demo["password"], demo["org_name"]))
       \/ pc = "login"
            /\ login_for_access_token(NewEmail, demo["password"], demo["accept"])
       \/ pc = "create" /\ create_job(demo["token"], demo["job"])
       \/ pc = "activate" /\ activate_job(demo["token"], demo["job_id"])
       \/ pc = "apply"
            /\ \E g \in GeminiCalls :
                 apply_public(demo["job_id"],
                     [full_name |-> "Alice", email |-> ApplicantEmail, cv_text |-> demo["cv"]], g)

\* The client reads the response: it goes on when the status is the one it
\* expects, keeping the token and the job id it is given, and gives up
\* otherwise.
DemoReceive ==
    /\ pc \in {"register", "login", "create", "activate", "apply"}
    /\ request["op"] = DemoOp(pc)
    /\ IF response["status"] # DemoExpected(pc)
         THEN pc' = "failed" /\ UNCHANGED demo
         ELSE /\ pc' = DemoSteps[(CHOOSE i \in 1..5 : DemoSteps[i] = pc) + 1]
              /\ demo' = IF pc = "login"
                           THEN [demo EXCEPT !["token"] = response["body"]["access_token"]]
                         ELSE IF pc = "create"
                           THEN [demo EXCEPT !["job_id"] = response["body"]["id"]]
                         ELSE demo
    /\ UNCHANGED <<api_vars, score_vars, oa_vars, threads>>

NextDemo == DemoSend \/ DemoReceive

SpecDemo == InitDemo /\ [][NextDemo]_vars

-----------------------------------------------------------------------------
(* The hiring specification: two organizations (the seeded one and one     *)
(* registered through the API) create and activate jobs, candidates apply, *)
(* assessments are scheduled, and jobs and candidates are read.            *)

AcmeToken == uuid4("users", SeedUserCount + 1)
HiringTokens == {TEST_TOKEN, AcmeToken}
OaTokens == HiringTokens \cup {"no-such-token"}
HiringJobIds == {"jobs-1", NewJobId}
\* The candidate ids given out through the API.
NewCandidateIds ==
    {uuid4("candidates", n) : n \in (SeedCandidateCount + 1)..(SeedCandidateCount + MaxCandidates)}
FirstCandidateId == uuid4("candidates", SeedCandidateCount + 1)
HiringCandidateIds == {"candidates-1", FirstCandidateId, "no-such-candidate"}
HiringPayload == [full_name |-> "Alice", email |-> ApplicantEmail, cv_text |-> DemoCv]
HiringUpload == UploadFile(<<"r","e","s","u","m","e",".","t","x","t">>, DemoCv, TRUE)

InitHiring ==
    /\ InitStore
    /\ get_gemini_response = FALSE
    /\ IdleScore /\ IdleQuestions /\ IdleClient

NextHiring ==
    \/ register_user(UserCreate(NewEmail, "s3cret", "Acme"))
    \/ \E t \in HiringTokens : create_job(t, DraftJob)
    \/ \E t \in HiringTokens : activate_job(t, NewJobId)
    \/ \E j \in {NewJobId, "no-such-job"}, g \in GeminiCalls :
          apply_public(j, HiringPayload, g)
    \/ \E j \in HiringJobIds, g \in GeminiCalls :
          upload_cv(j, HiringUpload, "", <<>>, TEST_TOKEN, PdfUnavailable, g)
    \/ \E t \in OaTokens, c \in HiringCandidateIds, g \in GeminiCalls :
          schedule_oa(t, c, 5, g)
    \/ \E t \in HiringTokens, j \in HiringJobIds : get_candidates_for_job(t, j)

SpecHiring == InitHiring /\ [][NextHiring]_vars

-----------------------------------------------------------------------------
(* The reading specification: users of the two organizations read and      *)
(* activate jobs and read candidates, their own and the other's.           *)

ReadJobIds == HiringJobIds \cup {"no-such-job"}

NextReading ==
    \/ register_user(UserCreate(NewEmail, "s3cret", "Acme"))
    \/ \E t \in HiringTokens : create_job(t, DraftJob)
    \/ \E t \in HiringTokens, j \in ReadJobIds : activate_job(t, j)
    \/ \E j \in HiringJobIds, g \in GeminiCalls : apply_public(j, HiringPayload, g)
    \/ \E t \in HiringTokens : read_jobs(t)
    \/ \E t \in HiringTokens, j \in ReadJobIds : read_job(t, j)
    \/ \E t \in HiringTokens, j \in ReadJobIds : get_candidates_for_job(t, j)
    \/ \E t \in HiringTokens, c \in HiringCandidateIds : get_candidate_details(t, c)

SpecReading == InitHiring /\ [][NextReading]_vars

-----------------------------------------------------------------------------
(* The failure specification: applications whose scoring fails after the   *)
(* candidate is stored, and the reads that follow.                         *)

FailingPayload == [full_name |-> "Mallory", email |-> ApplicantEmail, cv_text |-> JsonNumber(42)]
BlankPayload == [full_name |-> "Bob"]
FailurePayloads == {HiringPayload, BlankPayload, FailingPayload}
FailureTokens == {TEST_TOKEN, "no-such-token"}

NextFailure ==
    \/ \E payload \in FailurePayloads, g \in GeminiCalls :
          apply_public("jobs-1", payload, g)
    \/ \E t \in FailureTokens, c \in NewCandidateIds \cup {"candidates-1"} :
          get_candidate_details(t, c)
    \/ \E t \in FailureTokens : get_analytics_summary(t)
    \/ \E t \in FailureTokens, j \in {"jobs-1", "jobs-2"} : get_job_analytics(t, j)
    \/ \E t \in FailureTokens : get_hiring_funnel(t)

SpecFailure == InitHiring /\ [][NextFailure]_vars

-----------------------------------------------------------------------------
(* The save specification: _simulate_save called on the seeded store with  *)
(* new records, stored records that were changed, and records that bring   *)
(* an id of their own, as time passes.                                     *)

MaxSaved == 2   \* entries a collection gains through saves

SaveCollections == {"jobs", "interviews"}

\* A record without an id, the stored records with a field changed, a record
\* with an id that is not stored, and records whose id is "" or None.
SaveInputs(db, collection_name) ==
    (IF collection_name = "jobs"
       THEN {[title |-> "New"],
             [id |-> "imported-1", title |-> "Imported"],
             [id |-> "", title |-> "Empty id"]}
       ELSE {[id |-> NoneStr, title |-> "None id", created_at |-> -1]})
    \cup {Set(db[collection_name][k], "title", "Changed") :
            k \in DOMAIN db[collection_name] \cap {"jobs-1", "jobs-4"}}

simulate_save_call(collection_name, data) ==
    /\ Cardinality(DOMAIN DATABASE[collection_name])
         < Cardinality(DOMAIN SeededDatabase[collection_name]) + MaxSaved
    /\ request' = [op |-> "_simulate_save", collection_name |-> collection_name, data |-> data]
    /\ LET saved == simulate_save(DATABASE, collection_name, data, clock)
       IN  /\ DATABASE' = saved["db"]
           /\ response' = [doc |-> saved["doc"]]
    /\ UNCHANGED <<clock, get_gemini_response, probe_vars>>

NextSave ==
    \/ \E c \in SaveCollections : \E data \in SaveInputs(DATABASE, c) : simulate_save_call(c, data)
    \/ Tick

SpecSave == InitHiring /\ [][NextSave]_vars

-----------------------------------------------------------------------------
(* The agent specification: messages sent to the conversational agent in   *)
(* two sessions, in any order.                                             *)

MaxParts == 2      \* fragments in a message to the agent

\* A greeting in three spellings, the two scheduling words, the two feedback
\* phrases, "this" (which holds "hi"), and two fragments that trigger nothing.
MessageParts == {
    <<"H","e","l","l","o">>, <<"H","I">>, <<"h","e","y">>,
    <<"s","c","h","e","d","u","l","e">>, <<"A","v","a","i","l","a","b","l","e">>,
    <<"T","e","l","l"," ","m","e"," ","a","b","o","u","t">>, <<"f","e","e","d","b","a","c","k">>,
    <<"t","h","i","s">>, <<"T","h","a","n","k","s">>, <<"t","e","l","l"," ","m","e">> }

MessageSeqs == UNION {[1..n -> MessageParts] : n \in 1..MaxParts}

\* The fragments of a message, separated by one space.
RECURSIVE JoinParts(_)
JoinParts(ws) ==
    IF Len(ws) = 1 THEN Head(ws) ELSE Head(ws) \o <<" ">> \o JoinParts(Tail(ws))

AgentMessages == {JoinParts(ws) : ws \in MessageSeqs}

\* Bodies with a message, without one, with an empty one, with null and with
\* a number.
AgentPayloads ==
    {[message |-> m] : m \in AgentMessages \cup {<<>>, None, JsonNumber(42)}}
      \cup {[sender |-> "candidate"]}

SessionIds == {"session-1", "session-2"}

NextAgent == \E session_id \in SessionIds, payload \in AgentPayloads :
                ai_agent_message(session_id, payload)

SpecAgent == InitHiring /\ [][NextAgent]_vars

-----------------------------------------------------------------------------
(* The race specification: register requests handled on worker threads,    *)
(* the lookup of one and the insert of another in any order.               *)

RaceUsers ==
    {UserCreate(e, "s3cret", o) : e \in {NewEmail, NewEmailUpper, SeedUser1["email"]},
                                  o \in OrgNames}

InitRace ==
    /\ InitStore
    /\ get_gemini_response = FALSE
    /\ IdleScore /\ IdleQuestions
    /\ pc = "idle" /\ demo = NoRecord
    /\ threads = [th \in 1..MaxThreads |-> [at |-> "idle"]]

NextRace ==
    \/ \E th \in 1..MaxThreads, user \in RaceUsers : register_lookup(th, user)
    \/ \E th \in 1..MaxThreads : register_insert(th)

SpecRace == InitRace /\ [][NextRace]_vars

-----------------------------------------------------------------------------
(* Claims about score_cv *)

IsBlank(text) == text = None \/ \A i \in 1..Len(text) : text[i] \in Whitespace

\* C1: score_cv returns an integer ats_score between 0 and 100 for every
\* input: None, the empty text, blank texts, and long texts naming all nine
\* keywords.
C1_ScoreInRange ==
    \A c \in score_log : c["result"]["ats_score"] \in 0..100

\* A long text naming all nine keywords has been scored, and reached 100.
C1_Witness ==
    /\ cv_text # None
    /\ Len(cv_text) >= 1000
    /\ \E c \in score_log :
         c["result"]["ats_score"] = 100 /\ Len(c["result"]["highlights"]) = Len(KEYWORDS)

\* C2: a CV text that is None, empty or only whitespace gets exactly the
\* result {ats_score 10, the fixed message, no highlights}, whatever its
\* length and whatever the external model would have answered.
C2_BlankCvResult ==
    IsBlank(cv_text) => \A c \in score_log : c["result"] = EmptyCvResult

\* A whitespace-only text long enough for a length score above 10 has been
\* scored while the external model was answering.
C2_Witness ==
    /\ IsBlank(cv_text)
    /\ cv_text # None
    /\ Len(cv_text) >= 110
    /\ \E c \in score_log : c["gemini"]["kind"] = "reply"

\* C9: the enrichment never changes ats_score, feedback or highlights: they
\* are the same whether the external model is absent, raises or replies
\* (whatever it replies), and a raised exception leaves a result without
\* detailed_feedback instead of an error.
C9_EnrichmentIsAdditive ==
    /\ \A c, d \in score_log :
         /\ c["result"]["ats_score"] = d["result"]["ats_score"]
         /\ c["result"]["feedback"] = d["result"]["feedback"]
         /\ c["result"]["highlights"] = d["result"]["highlights"]
    /\ \A c \in score_log :
         c["gemini"]["kind"] # "reply" =>
           DOMAIN c["result"] = {"ats_score", "feedback", "highlights"}

\* A text with keyword matches has been scored under every outcome of the
\* enrichment, and a reply was attached.
C9_Witness ==
    /\ ~ IsBlank(cv_text)
    /\ {c["gemini"] : c \in score_log} = GeminiOutcomes
    /\ \E c \in score_log :
         /\ Len(c["result"]["highlights"]) > 0
         /\ "detailed_feedback" \in DOMAIN c["result"]

-----------------------------------------------------------------------------
(* Claims about generate_assessment_questions *)

\* C8 (as stated): asked for 5 questions, generate_assessment_questions
\* returns exactly 5, whatever the external model does.
C8_FiveQuestions ==
    (oa_questions["returned"] /\ oa_args["n"] = 5) => Len(oa_questions["value"]) = 5

ModelRepliedList ==
    /\ oa_args["gemini"]["kind"] = "reply"
    /\ oa_args["gemini"]["text"]["doc"] = "array"

\* What the code does for n = 5: a JSON list replied by the external model is
\* returned cut to at most 5 items and never padded; in every other case the
\* result is 5 template questions, the generic one filling the remainder.
C8_QuestionCount ==
    (oa_questions["returned"] /\ oa_args["n"] = 5) =>
      IF ModelRepliedList
        THEN oa_questions["value"] =
               SubSeq(oa_args["gemini"]["text"]["items"], 1,
                      Min(5, Len(oa_args["gemini"]["text"]["items"])))
        ELSE /\ Len(oa_questions["value"]) = 5
             /\ \A i \in 1..5 :
                  oa_questions["value"][i] \in
                    {FastApiQuestion, PythonQuestion, ReactQuestion, StateQuestion,
                     GenericQuestion}
             /\ \A i \in 1..4 :
                  oa_questions["value"][i] = GenericQuestion
                    => oa_questions["value"][i + 1] = GenericQuestion

\* The external model replied a list of two questions to a request for five.
C8_Witness ==
    /\ oa_questions["returned"]
    /\ oa_args["n"] = 5
    /\ ModelRepliedList
    /\ Len(oa_args["gemini"]["text"]["items"]) = 2

-----------------------------------------------------------------------------
(* Claims about job posts and applications *)

ApiCandidates == DOMAIN DATABASE["candidates"] \ DOMAIN SeededDatabase["candidates"]

\* The text score_cv was called with for a stored candidate: the CV text of
\* an apply_public candidate, and the prompt made of the job description and
\* the extracted text for an upload_cv candidate.
ScoredText(c) ==
    LET cand == DATABASE["candidates"][c]
    IN  IF "resume_url" \in DOMAIN cand
          THEN prompt_text(Get(DATABASE["jobs"][cand["job_post_id"]], "description", <<>>),
                           cand["cv_text"])
          ELSE cand["cv_text"]

\* C3: scoring is deterministic: any two calls of score_cv on the same text,
\* made in whatever states of the store and at whatever points of a run,
\* gave the same ats_score and the same highlights.
C3_ScoringDeterministic ==
    \A c, d \in ApiCandidates :
        ScoredText(c) = ScoredText(d) =>
          /\ DATABASE["candidates_ai"][c]["ats_score"] = DATABASE["candidates_ai"][d]["ats_score"]
          /\ DATABASE["candidates_ai"][c]["highlights"] = DATABASE["candidates_ai"][d]["highlights"]

\* Two candidates were scored on the same text in different states of the
\* store, the external model replying for one and failing for the other.
C3_Witness ==
    \E c, d \in ApiCandidates :
        /\ c # d
        /\ ScoredText(c) = ScoredText(d)
        /\ "detailed_feedback" \in DOMAIN DATABASE["candidates_ai"][c]
        /\ "detailed_feedback" \notin DOMAIN DATABASE["candidates_ai"][d]
        /\ Len(DATABASE["candidates_ai"][c]["highlights"]) > 0

\* C5: activate_job on an existing job of the caller's organization answers
\* 200 and leaves the job ACTIVE whatever its status was, every field of the
\* job other than status and updated_at as it was, and every other job
\* untouched; so a second activation changes nothing but updated_at.
C5_ActivateJob ==
    [][\A t \in JobTokens, j \in JobIds :
         (/\ activate_job(t, j)
          /\ get_current_user(DATABASE, t)["status"] = 200
          /\ j \in DOMAIN DATABASE["jobs"]
          /\ DATABASE["jobs"][j]["org_id"] = org_id_of(DATABASE, t))
         => /\ response'["status"] = 200
            /\ DOMAIN DATABASE'["jobs"] = DOMAIN DATABASE["jobs"]
            /\ DOMAIN DATABASE'["jobs"][j] = DOMAIN DATABASE["jobs"][j]
            /\ DATABASE'["jobs"][j]["status"] = "ACTIVE"
            /\ \A k \in DOMAIN DATABASE["jobs"][j] \ {"status", "updated_at"} :
                 DATABASE'["jobs"][j][k] = DATABASE["jobs"][j][k]
            /\ \A i \in DOMAIN DATABASE["jobs"] \ {j} :
                 DATABASE'["jobs"][i] = DATABASE["jobs"][i]
            /\ \A c \in DOMAIN DATABASE \ {"jobs"} : DATABASE'[c] = DATABASE[c]]_vars

\* A job created CLOSED has been activated, and a job that was ACTIVE from
\* the start has been activated again at a later time.
C5_Witness ==
    /\ NewJobId \in DOMAIN DATABASE["jobs"]
    /\ DATABASE["jobs"][NewJobId]["title"] = "Created CLOSED"
    /\ DATABASE["jobs"][NewJobId]["status"] = "ACTIVE"
    /\ DATABASE["jobs"]["jobs-1"]["updated_at"] > SeededDatabase["jobs"]["jobs-1"]["updated_at"]
    /\ DATABASE["jobs"]["jobs-1"]["status"] = "ACTIVE"

NotOpen(j) ==
    \/ j \notin DOMAIN DATABASE["jobs"]
    \/ "status" \notin DOMAIN DATABASE["jobs"][j]
    \/ DATABASE["jobs"][j]["status"] # "ACTIVE"

\* C6 as stated: every application, by apply_public or by upload_cv, to a job
\* that does not exist or is not ACTIVE is answered 400 and changes nothing
\* in the store.
C6_RejectedWith400 ==
    [][/\ \A j \in ApplyJobIds, payload \in ApplyPayloads, g \in GeminiCalls :
            (apply_public(j, payload, g) /\ NotOpen(j))
            => response'["status"] = 400 /\ DATABASE' = DATABASE
       /\ \A j \in ApplyJobIds, u \in Uploads, t \in ApplyTokens, g \in GeminiCalls :
            (upload_cv(j, u["file"], "", <<>>, t, u["pdf"], g) /\ NotOpen(j))
            => response'["status"] = 400 /\ DATABASE' = DATABASE]_vars

\* C6 amended: such an application changes nothing in the store (no
\* candidate, no screening result, no candidates_ai entry); apply_public
\* answers 400, and upload_cv answers 400 when its bearer token resolves to a
\* user and the error of the authentication (401) when it does not.
C6_RejectedApplication ==
    [][/\ \A j \in ApplyJobIds, payload \in ApplyPayloads, g \in GeminiCalls :
            (apply_public(j, payload, g) /\ NotOpen(j))
            => /\ response' = HttpError(400, "Invalid or inactive Job Post ID")
               /\ DATABASE' = DATABASE
       /\ \A j \in ApplyJobIds, u \in Uploads, t \in ApplyTokens, g \in GeminiCalls :
            (upload_cv(j, u["file"], "", <<>>, t, u["pdf"], g) /\ NotOpen(j))
            => /\ response' =
                    IF token_user_data(DATABASE, t) = NoRecord
                      THEN HttpError(401, "Invalid authentication credentials or token")
                      ELSE HttpError(400, "Invalid or inactive job posting")
               /\ DATABASE' = DATABASE]_vars

\* An authenticated upload to a job that exists and is not ACTIVE was
\* rejected, in a store that already holds applications.
C6_Witness ==
    /\ request["op"] = "upload_cv"
    /\ request["token"] = TEST_TOKEN
    /\ request["job_id"] = NewJobId
    /\ NewJobId \in DOMAIN DATABASE["jobs"]
    /\ NotOpen(NewJobId)
    /\ response["status"] = 400
    /\ ApiCandidates # {}

\* C7: the demo client never gives up, and the application it ends with
\* reports the keywords python, fastapi and docker (keyword score 60), a
\* length score of 10 and the final ats_score 40, for a user registered with
\* an organization.
C7_DemoRun ==
    /\ pc # "failed"
    /\ pc = "done" =>
         /\ response["status"] = 200
         /\ response["body"]["ai"]["highlights"] =
              << <<"p","y","t","h","o","n">>, <<"f","a","s","t","a","p","i">>,
                 <<"d","o","c","k","e","r">> >>
         /\ keyword_score(Len(response["body"]["ai"]["highlights"])) = 60
         /\ length_score(lower(demo["cv"])) = 10
         /\ response["body"]["ai"]["ats_score"] = 40
         /\ response["body"]["candidate"]["job_post_id"] = demo["job_id"]
         /\ DATABASE["users"][demo["token"]]["org_id"] \in DOMAIN DATABASE["organizations"]

\* The client has gone through the five requests, for a job created CLOSED.
C7_Witness ==
    /\ pc = "done"
    /\ demo["job"] = ClosedJob
    /\ Len(demo["cv"]) \in 35..45
    /\ request["op"] = "apply_public"
    /\ response["body"]["ai"]["ats_score"] = 40

-----------------------------------------------------------------------------
(* Claims about registration and login *)

SeedUserIds == DOMAIN SeededDatabase["users"]
RegisteredIds == DOMAIN DATABASE["users"] \ SeedUserIds

\* C4: once a user with email e is stored, every register with the same
\* email is rejected with 400 "Email already registered" and changes no
\* collection of the store (no user and no organization is added).
C4_DuplicateRegisterRejected ==
    [][\A e \in RegisterEmails, p \in RegisterPasswords, o \in OrgNames :
         (/\ register_user(UserCreate(e, p, o))
          /\ \E u \in DOMAIN DATABASE["users"] : DATABASE["users"][u]["email"] = e)
         => /\ response' = HttpError(400, "Email already registered")
            /\ DATABASE' = DATABASE]_vars

\* A register was rejected for the email of a user registered through the API.
C4_Witness ==
    /\ request["op"] = "register_user"
    /\ response["status"] = 400
    /\ \E u \in RegisteredIds : DATABASE["users"][u]["email"] = request["user"]["email"]

WantsHtml(accept) == accept = <<>> \/ contains(TextHtml, lower(accept))

\* The user a token resolves to through get_current_user is the stored user u.
ResolvesTo(token, u) ==
    /\ get_current_user(DATABASE, token)["status"] = 200
    /\ token_user_data(DATABASE, token)["id"] = u
    /\ token_user_data(DATABASE, token)["email"] = DATABASE["users"][u]["email"]

\* C10 as stated: a login with the email and the password a user registered
\* with returns 200 with a non-empty access_token that resolves to that user.
C10_RoundTripAsStated ==
    [][\A u \in RegisteredIds, p \in RegisterPasswords, a \in AcceptHeaders :
         (/\ DATABASE["users"][u]["password"] = hash_password(p)
          /\ login_for_access_token(DATABASE["users"][u]["email"], p, a))
         => /\ response'["status"] = 200
            /\ response'["body"]["access_token"] # ""
            /\ ResolvesTo(response'["body"]["access_token"], u)]_vars

\* C10 amended: for every registered user whose (email, password) is not the
\* demo credential pair, a login with that pair resolves to the same user:
\* with an Accept header that is non-empty and does not name text/html the
\* response is 200 and its access_token is the user's id; otherwise it is a
\* 303 redirect carrying the same token as a cookie.
C10_RoundTrip ==
    [][\A u \in RegisteredIds, p \in RegisterPasswords, a \in AcceptHeaders :
         (/\ DATABASE["users"][u]["password"] = hash_password(p)
          /\ login_for_access_token(DATABASE["users"][u]["email"], p, a)
          /\ ~ (DATABASE["users"][u]["email"] = TEST_EMAIL /\ p = TEST_PASSWORD))
         => IF WantsHtml(a)
              THEN /\ response'["status"] = 303
                   /\ response'["cookie"] = u
                   /\ ResolvesTo(response'["cookie"], u)
              ELSE /\ response'["status"] = 200
                   /\ response'["body"]["access_token"] = u
                   /\ response'["body"]["access_token"] # ""
                   /\ ResolvesTo(response'["body"]["access_token"], u)]_vars

\* A registered user logged in and got a token back in the body.
C10_Witness ==
    /\ request["op"] = "login_for_access_token"
    /\ response["status"] = 200
    /\ response["body"]["access_token"] \in RegisteredIds
    /\ DATABASE["users"][response["body"]["access_token"]]["email"] = request["username"]
    /\ ResolvesTo(response["body"]["access_token"], response["body"]["access_token"])


\* C11: a login is answered with a token exactly when its pair is the demo
\* credential pair or names a stored user (by email, whatever the case)
\* whose stored password is the submitted one; every other login is answered
\* 401 "Incorrect username or password", with neither a body nor a cookie.
C11_LoginOnlyWithCredentials ==
    [][\A e \in LoginEmails, p \in LoginPasswords, a \in AcceptHeaders :
         login_for_access_token(e, p, a) =>
           LET demo_pair == e = TEST_EMAIL /\ p = TEST_PASSWORD
               holders == {u \in DOMAIN DATABASE["users"] :
                              /\ lower(DATABASE["users"][u]["email"]) = lower(e)
                              /\ "password" \in DOMAIN DATABASE["users"][u]
                              /\ DATABASE["users"][u]["password"] = p}
               token == IF "body" \in DOMAIN response' THEN response'["body"]["access_token"]
                        ELSE response'["cookie"]
           IN  IF demo_pair \/ holders # {}
                 THEN /\ response'["status"] \in {200, 303}
                      /\ IF demo_pair THEN token = TEST_TOKEN ELSE token \in holders
                 ELSE /\ response' = HttpError(401, "Incorrect username or password")
                      /\ DOMAIN response' \cap {"body", "cookie"} = {}]_vars

\* A user registered through the API was refused with a wrong password.
C11_Witness ==
    /\ request["op"] = "login_for_access_token"
    /\ response["status"] = 401
    /\ \E u \in RegisteredIds :
         /\ DATABASE["users"][u]["email"] = request["username"]
         /\ DATABASE["users"][u]["password"] # request["password"]

\* C12: a successful register with an org_name stores one new organization
\* and one new user whose org_id resolves through get_organization_by_id to
\* that organization (its name the org_name, its contact email the user's
\* email); the user returned carries that id and org_id and no password.
C12_RegisterWithOrganization ==
    [][\A e \in RegisterEmails, p \in RegisterPasswords, o \in OrgNames \ {NoneStr, ""} :
         (register_user(UserCreate(e, p, o)) /\ response'["status"] = 201) =>
           LET new_users == DOMAIN DATABASE'["users"] \ DOMAIN DATABASE["users"]
               new_orgs == DOMAIN DATABASE'["organizations"] \ DOMAIN DATABASE["organizations"]
           IN  /\ Cardinality(new_users) = 1
               /\ Cardinality(new_orgs) = 1
               /\ \A u \in new_users :
                    LET org == get_organization_by_id(DATABASE', DATABASE'["users"][u]["org_id"])
                    IN  /\ DATABASE'["users"][u]["org_id"] \in new_orgs
                        /\ org # NoRecord
                        /\ org["id"] = DATABASE'["users"][u]["org_id"]
                        /\ org["name"] = o
                        /\ org["hr_contact_email"] = e
                        /\ response'["body"]["id"] = u
                        /\ response'["body"]["org_id"] = DATABASE'["users"][u]["org_id"]
                        /\ "password" \notin DOMAIN response'["body"]]_vars

\* A user registered with the organization name "Acme", and the
\* organization is stored.
C12_Witness ==
    /\ request["op"] = "register_user"
    /\ request["user"]["org_name"] = "Acme"
    /\ response["status"] = 201
    /\ response["body"]["org_id"] \in DOMAIN DATABASE["organizations"]
    /\ DATABASE["organizations"][response["body"]["org_id"]]["name"] = "Acme"


-----------------------------------------------------------------------------
(* Claims about candidates, assessments and organizations *)

\* C17: in every state reached through register, create_job, activate_job,
\* apply_public, upload_cv and schedule_oa, the job_post_id of every stored
\* candidate is the id of a stored job.
C17_CandidateJobExists ==
    \A c \in DOMAIN DATABASE["candidates"] :
        /\ "job_post_id" \in DOMAIN DATABASE["candidates"][c]
        /\ DATABASE["candidates"][c]["job_post_id"] \in DOMAIN DATABASE["jobs"]

\* A candidate who applied to a job created through the API has been sent an
\* assessment.
C17_Witness ==
    \E c \in DOMAIN DATABASE["candidates"] :
        /\ DATABASE["candidates"][c]["job_post_id"] = NewJobId
        /\ DATABASE["candidates"][c]["stage"] = "ASSESSMENT_SENT"


\* The organization of the job a stored candidate applied to, NoneStr when
\* the job is not stored.
JobOrgOf(db, candidate_id) ==
    LET job_id == db["candidates"][candidate_id]["job_post_id"]
    IN  IF job_id \in DOMAIN db["jobs"] THEN db["jobs"][job_id]["org_id"] ELSE NoneStr

\* C14: a schedule_oa call by an authenticated caller is answered 404 when
\* the candidate does not exist and 403 when the candidate's job is missing
\* or belongs to another organization than the caller's; a call with a token
\* that resolves to no user is answered 401.  In each of these cases the
\* store is unchanged: no assessment is added and no stage changes.
C14_ScheduleOaOrgChecked ==
    [][\A t \in OaTokens, c \in HiringCandidateIds, g \in GeminiCalls :
         schedule_oa(t, c, 5, g) =>
           IF token_user_data(DATABASE, t) = NoRecord
             THEN response'["status"] = 401 /\ DATABASE' = DATABASE
           ELSE IF c \notin DOMAIN DATABASE["candidates"]
             THEN response' = HttpError(404, "Candidate not found") /\ DATABASE' = DATABASE
           ELSE IF JobOrgOf(DATABASE, c) # token_user_data(DATABASE, t)["org_id"]
             THEN /\ response' = HttpError(403, "Access denied to generate OA for this candidate")
                  /\ DATABASE' = DATABASE
           ELSE response'["status"] = 200]_vars

\* A user of the seeded organization asked for an assessment of a candidate
\* of a job of the registered organization, and was refused.
C14_Witness ==
    /\ request["op"] = "schedule_oa"
    /\ request["token"] = TEST_TOKEN
    /\ request["candidate_id"] = FirstCandidateId
    /\ response["status"] = 403
    /\ FirstCandidateId \in DOMAIN DATABASE["candidates"]
    /\ JobOrgOf(DATABASE, FirstCandidateId) \notin {NoneStr, TEST_USER["org_id"]}

\* C15: a successful schedule_oa adds exactly one assessment, for the
\* candidate and the candidate's job, keeps every assessment stored before,
\* and leaves the candidate in stage ASSESSMENT_SENT whatever the stage was.
C15_ScheduleOaPersists ==
    [][\A t \in OaTokens, c \in HiringCandidateIds, g \in GeminiCalls :
         (schedule_oa(t, c, 5, g) /\ response'["status"] = 200) =>
           LET added == DOMAIN DATABASE'["assessments"] \ DOMAIN DATABASE["assessments"]
           IN  /\ Cardinality(added) = 1
               /\ \A a \in added :
                    /\ DATABASE'["assessments"][a]["candidate_id"] = c
                    /\ DATABASE'["assessments"][a]["job_id"]
                         = DATABASE["candidates"][c]["job_post_id"]
                    /\ response'["body"]["assessment"]["id"] = a
               /\ \A a \in DOMAIN DATABASE["assessments"] :
                    DATABASE'["assessments"][a] = DATABASE["assessments"][a]
               /\ DATABASE'["candidates"][c]["stage"] = "ASSESSMENT_SENT"
               /\ DATABASE'["candidates"][c]["job_post_id"]
                    = DATABASE["candidates"][c]["job_post_id"]]_vars

\* The assessments created through the API.
ApiAssessments ==
    {a \in DOMAIN DATABASE["assessments"] : a \notin DOMAIN SeededDatabase["assessments"]}

\* A second assessment was scheduled for a candidate who already was in
\* stage ASSESSMENT_SENT, and both are stored.
C15_Witness ==
    /\ request["op"] = "schedule_oa"
    /\ response["status"] = 200
    /\ Cardinality({a \in ApiAssessments :
          DATABASE["assessments"][a]["candidate_id"] = request["candidate_id"]}) = 2
    /\ DATABASE["candidates"][request["candidate_id"]]["stage"] = "ASSESSMENT_SENT"


\* The candidates stored for job j.
StoredFor(db, j) ==
    {c \in DOMAIN db["candidates"] : db["candidates"][c]["job_post_id"] = j}

\* C13: once a candidate has successfully applied to a job, every later
\* listing of the candidates of that job that is answered to a user of the
\* job's organization includes that candidate.  Step by step: a successful
\* application stores the candidate for the job, no step removes a stored
\* candidate or moves it to another job, and every answered listing of a
\* job holds every candidate stored for it.
C13_AppliedCandidateListed ==
    [][/\ \A j \in HiringJobIds : StoredFor(DATABASE, j) \subseteq StoredFor(DATABASE', j)
       /\ (request'["op"] \in {"apply_public", "upload_cv"} /\ response'["status"] = 200)
            => response'["body"]["candidate"]["id"] \in StoredFor(DATABASE', request'["job_id"])
       /\ (request'["op"] = "get_candidates_for_job" /\ response'["status"] = 200)
            => StoredFor(DATABASE', request'["job_id"])
                 \subseteq {listed["id"] : listed \in response'["body"]}]_vars

\* A candidate of a job created through the API has been sent an assessment
\* and is in the listing of that job.
C13_Witness ==
    /\ request["op"] = "get_candidates_for_job"
    /\ request["job_id"] = NewJobId
    /\ response["status"] = 200
    /\ \E listed \in response["body"] :
         /\ listed["id"] \in NewCandidateIds
         /\ listed["stage"] = "ASSESSMENT_SENT"


\* The organization of the user a token resolves to.
CallerOrg(t) == token_user_data(DATABASE, t)["org_id"]

\* The token resolves to a user.
Authenticated(t) == token_user_data(DATABASE, t) # NoRecord

\* The stored job j belongs to another organization than the caller's.
ForeignJob(t, j) ==
    j \in DOMAIN DATABASE["jobs"] /\ DATABASE["jobs"][j]["org_id"] # CallerOrg(t)

\* C20: read_jobs returns exactly the stored jobs of the caller's
\* organization; read_job, activate_job and get_candidates_for_job on a job
\* of another organization, and get_candidate_details on a candidate of
\* such a job, are answered 403 and leave the store unchanged; what these
\* handlers return with 200 belongs to the caller's organization.
C20_OrganizationScoping ==
    [][\A t \in HiringTokens : Authenticated(t) =>
         /\ read_jobs(t) =>
              /\ response'["status"] = 200
              /\ {job["id"] : job \in response'["body"]}
                   = {j \in DOMAIN DATABASE["jobs"] : DATABASE["jobs"][j]["org_id"] = CallerOrg(t)}
              /\ \A job \in response'["body"] :
                   job = JobPost(DATABASE["jobs"][job["id"]]) /\ job["org_id"] = CallerOrg(t)
         /\ \A j \in ReadJobIds :
              /\ (read_job(t, j) \/ activate_job(t, j) \/ get_candidates_for_job(t, j)) =>
                   IF ForeignJob(t, j)
                     THEN response'["status"] = 403 /\ DATABASE' = DATABASE
                     ELSE response'["status"] \in {200, 404}
              /\ (read_job(t, j) /\ response'["status"] = 200) =>
                   response'["body"]["id"] = j /\ response'["body"]["org_id"] = CallerOrg(t)
              /\ (get_candidates_for_job(t, j) /\ response'["status"] = 200) =>
                   \A listed \in response'["body"] :
                       JobOrgOf(DATABASE, listed["id"]) = CallerOrg(t)
              /\ activate_job(t, j) =>
                   \A k \in DOMAIN DATABASE["jobs"] :
                       ForeignJob(t, k) => DATABASE'["jobs"][k] = DATABASE["jobs"][k]
         /\ \A c \in HiringCandidateIds :
              get_candidate_details(t, c) =>
                IF c \notin DOMAIN DATABASE["candidates"]
                  THEN response'["status"] = 404
                ELSE IF JobOrgOf(DATABASE, c) # CallerOrg(t)
                  THEN response'["status"] = 403 /\ DATABASE' = DATABASE
                ELSE response'["status"] = 200 /\ response'["body"]["id"] = c]_vars

\* The user of the registered organization was refused the details of a
\* seeded candidate while that organization has a job with a candidate of
\* its own.
C20_Witness ==
    /\ request["op"] = "get_candidate_details"
    /\ request["token"] = AcmeToken
    /\ request["candidate_id"] = "candidates-1"
    /\ response["status"] = 403
    /\ \E c \in DOMAIN DATABASE["candidates"] :
         JobOrgOf(DATABASE, c) = CallerOrg(AcmeToken)


-----------------------------------------------------------------------------
(* Claims about concurrent requests and failures *)

\* The stored users whose email is e, whatever the case.
UsersWithEmail(db, e) ==
    {u \in DOMAIN db["users"] : lower(db["users"][u]["email"]) = lower(e)}

\* C16: the uniqueness of emails rests on the lookup alone.  A register call
\* whose lookup found nobody stores its user whatever was stored since: the
\* insert is answered 201 and adds one user with the email of the call, so
\* two calls for one email whose lookups both precede the inserts leave two
\* users with that email.
C16_RegisterRace ==
    [][\A th \in 1..MaxThreads :
         register_insert(th) =>
           LET e == threads[th]["user"]["email"]
           IN  /\ response'["status"] = 201
               /\ Cardinality(UsersWithEmail(DATABASE', e))
                    = Cardinality(UsersWithEmail(DATABASE, e)) + 1
               /\ \A other \in 1..MaxThreads \ {th} :
                    (/\ threads[other]["at"] = "done"
                     /\ threads[other]["status"] = 201
                     /\ lower(threads[other]["user"]["email"]) = lower(e))
                      => Cardinality(UsersWithEmail(DATABASE', e)) >= 2]_vars

\* Both calls were answered 201 for the same email, and two users are
\* stored with it.
C16_Witness ==
    /\ \A th \in 1..MaxThreads :
         /\ threads[th]["at"] = "done"
         /\ threads[th]["status"] = 201
         /\ threads[th]["user"]["email"] = NewEmail
    /\ threads[1]["id"] # threads[2]["id"]
    /\ Cardinality(UsersWithEmail(DATABASE, NewEmail)) = 2


\* The stored candidates that have no AI result.
Unscored(db) == {c \in DOMAIN db["candidates"] : ~ has_ai(db, c)}

\* The candidates stored by an application whose scoring failed.
FailedApplications ==
    {c \in Unscored(DATABASE) \cap NewCandidateIds :
        DATABASE["candidates"][c]["cv_text"] = FailingPayload["cv_text"]}

\* C18: an application is not atomic.  When scoring fails after
\* create_candidate, the call is answered 500 and the candidate stays stored
\* with no AI result and no screening result.  With such candidates in the
\* store, get_candidate_details answers 200 without an "ai" field, and the
\* three analytics endpoints answer 200, counting the candidate among the
\* applications and stages and leaving it out of the scores.
C18_PartialApplication ==
    [][/\ \A g \in GeminiCalls :
            apply_public("jobs-1", FailingPayload, g) =>
              LET added == DOMAIN DATABASE'["candidates"] \ DOMAIN DATABASE["candidates"]
              IN  /\ response'["status"] = 500
                  /\ Cardinality(added) = 1
                  /\ added \subseteq Unscored(DATABASE')
                  /\ DATABASE'["screening_results"] = DATABASE["screening_results"]
       /\ \A c \in FailedApplications :
            /\ get_candidate_details(TEST_TOKEN, c) =>
                 /\ response'["status"] = 200
                 /\ response'["body"]["id"] = c
                 /\ "ai" \notin DOMAIN response'["body"]
            /\ get_analytics_summary(TEST_TOKEN) =>
                 /\ response'["status"] = 200
                 /\ response'["body"]["total_candidates"]
                      = Cardinality(candidates_of_org(DATABASE, TEST_USER["org_id"]))
                 /\ response'["body"]["avg_ats_score"] =
                      LET scored == DOMAIN DATABASE["candidates"] \ Unscored(DATABASE)
                      IN  IF scored = {} THEN 0
                          ELSE round2(sum_scores(DATABASE, scored), Cardinality(scored))
            /\ get_job_analytics(TEST_TOKEN, "jobs-1") =>
                 /\ response'["status"] = 200
                 /\ response'["body"]["total_applications"]
                      = Cardinality(StoredFor(DATABASE, "jobs-1"))
                 /\ \A i \in 1..Len(response'["body"]["top_candidates"]) :
                      response'["body"]["top_candidates"][i]["id"] \notin Unscored(DATABASE)
            /\ get_hiring_funnel(TEST_TOKEN) =>
                 /\ response'["status"] = 200
                 /\ response'["body"]["applied"]
                      = Cardinality(candidates_of_org(DATABASE, TEST_USER["org_id"]))]_vars

\* The summary was answered while one application had failed after its
\* candidate was stored and another had been scored.
C18_Witness ==
    /\ request["op"] = "get_analytics_summary"
    /\ response["status"] = 200
    /\ FailedApplications # {}
    /\ response["body"]["avg_ats_score"] > 0
    /\ response["body"]["total_candidates"] = SeedCandidateCount + MaxCandidates


-----------------------------------------------------------------------------
(* Claims about the record store *)

\* A save touched nothing but the entry under key of the collection.
OnlyEntryChanged(collection_name, key) ==
    /\ \A c \in DOMAIN DATABASE \ {collection_name} : DATABASE'[c] = DATABASE[c]
    /\ DOMAIN DATABASE'[collection_name] = DOMAIN DATABASE[collection_name] \cup {key}
    /\ \A k \in DOMAIN DATABASE[collection_name] \ {key} :
         DATABASE'[collection_name][k] = DATABASE[collection_name][k]

\* The fields of the record other than the ones save writes are as given.
FieldsKept(data, doc) ==
    \A k \in DOMAIN data \ {"id", "created_at", "updated_at"} :
        k \in DOMAIN doc /\ doc[k] = data[k]

\* Save of a record that has no id: a fresh id, created_at and updated_at,
\* stored under that id and returned.
SavedAsNew(collection_name, data, doc) ==
    /\ doc["id"] \notin DOMAIN DATABASE[collection_name]
    /\ "created_at" \in DOMAIN doc /\ doc["created_at"] = clock
    /\ doc["updated_at"] = clock
    /\ FieldsKept(data, doc)
    /\ DATABASE'[collection_name][doc["id"]] = doc
    /\ OnlyEntryChanged(collection_name, doc["id"])

\* Save of a record that has an id: the id and created_at are kept,
\* updated_at is refreshed, and the entry under that id is overwritten.
SavedAsUpdate(collection_name, data, doc) ==
    /\ doc["id"] = data["id"]
    /\ DOMAIN doc = DOMAIN data \cup {"updated_at"}
    /\ "created_at" \in DOMAIN data => doc["created_at"] = data["created_at"]
    /\ doc["updated_at"] = clock
    /\ FieldsKept(data, doc)
    /\ DATABASE'[collection_name][data["id"]] = doc
    /\ OnlyEntryChanged(collection_name, data["id"])

-----------------------------------------------------------------------------
(* Claims about the arithmetic of score_cv *)

\* The vocabulary terms that occur in a text, in vocabulary order.
RECURSIVE TermsIn(_, _)
TermsIn(text, i) ==
    IF i > Len(KEYWORDS) THEN <<>>
    ELSE (IF \E at \in 1..Len(text) :
               /\ at + Len(KEYWORDS[i]) - 1 <= Len(text)
               /\ SubSeq(text, at, at + Len(KEYWORDS[i]) - 1) = KEYWORDS[i]
            THEN <<KEYWORDS[i]>> ELSE <<>>) \o TermsIn(text, i + 1)

\* floor(0.6 * min(100, 20 * m) + 0.4 * min(100, max(10, floor(L / 10)))),
\* in tenths to stay in the integers.
StatedScore(m, L) ==
    LET ks == IF 20 * m < 100 THEN 20 * m ELSE 100
        tens == L \div 10
        ls == IF tens < 10 THEN 10 ELSE IF tens > 100 THEN 100 ELSE tens
    IN  (6 * ks + 4 * ls) \div 10

\* C22: for a non-blank text, with m the number of the nine vocabulary terms
\* that occur in the lower-cased text and L its length, ats_score is
\* floor(0.6 * min(100, 20 * m) + 0.4 * min(100, max(10, floor(L / 10)))),
\* and highlights is the list of those terms in vocabulary order.
C22_ScoreFormula ==
    ~ IsBlank(cv_text) =>
      \A c \in score_log :
          /\ c["result"]["highlights"] = TermsIn(lower(cv_text), 1)
          /\ c["result"]["ats_score"]
               = StatedScore(Len(TermsIn(lower(cv_text), 1)), Len(lower(cv_text)))

\* A text naming three keywords in mixed case, of a length between two
\* multiples of ten, has been scored.
C22_Witness ==
    /\ ~ IsBlank(cv_text)
    /\ cv_text # lower(cv_text)
    /\ Len(cv_text) % 10 # 0
    /\ \E c \in score_log :
         /\ Len(c["result"]["highlights"]) = 3
         /\ c["result"]["ats_score"] = 40

\* C30: a non-blank text scores at least 4; one that names no keyword and
\* has fewer than 110 characters scores exactly 4, less than the 10 a blank
\* text gets.
C30_NonBlankFloor ==
    \A c \in score_log :
        /\ ~ IsBlank(cv_text) => c["result"]["ats_score"] >= 4
        /\ (~ IsBlank(cv_text) /\ TermsIn(lower(cv_text), 1) = <<>> /\ Len(cv_text) < 110)
             => /\ c["result"]["ats_score"] = 4
                /\ c["result"]["ats_score"] < EmptyCvResult["ats_score"]
        /\ IsBlank(cv_text) => c["result"]["ats_score"] = 10

\* A text of 109 characters that names no keyword has been scored 4.
C30_Witness ==
    /\ cv_text # None
    /\ Len(cv_text) = 109
    /\ ~ IsBlank(cv_text)
    /\ \E c \in score_log : c["result"]["ats_score"] = 4 /\ c["result"]["highlights"] = <<>>


-----------------------------------------------------------------------------
(* Claims about the template questions *)

\* The call took the template path: the external model is absent, raised,
\* or replied something that is not a JSON list.
TemplatePath == ~ ModelRepliedList

\* The templates a job description triggers: the python/fastapi pair first,
\* then the react/frontend pair.
TriggeredTemplates(job_description) ==
    LET jd == lower(or_empty(job_description))
        names(word) == \E i \in 1..Len(jd) :
                          i + Len(word) - 1 <= Len(jd) /\ SubSeq(jd, i, i + Len(word) - 1) = word
    IN  (IF names(<<"p","y","t","h","o","n">>) \/ names(<<"f","a","s","t","a","p","i">>)
           THEN <<FastApiQuestion, PythonQuestion>> ELSE <<>>)
        \o (IF names(<<"r","e","a","c","t">>) \/ names(<<"f","r","o","n","t","e","n","d">>)
              THEN <<ReactQuestion, StateQuestion>> ELSE <<>>)

\* C23 (as stated): on the template path the result has exactly n items, for
\* every requested n.
C23_ExactlyN ==
    (oa_questions["returned"] /\ TemplatePath) => Len(oa_questions["value"]) = oa_args["n"]

\* C23, as the code has it: on the template path, for n >= 0 the result is
\* the triggered templates followed by the generic question up to exactly n
\* items, or the first n templates when more than n are triggered; for a
\* negative n nothing is padded and the slice [:n] drops the last -n
\* templates instead of returning none.
C23_TemplateQuestions ==
    (oa_questions["returned"] /\ TemplatePath) =>
      LET n == oa_args["n"]
          templates == TriggeredTemplates(oa_args["job_description"])
          value == oa_questions["value"]
      IN  IF n >= 0
            THEN /\ Len(value) = n
                 /\ \A i \in 1..n :
                      value[i] = IF i <= Len(templates) THEN templates[i] ELSE GenericQuestion
            ELSE value = SubSeq(templates, 1, IF Len(templates) + n > 0
                                                THEN Len(templates) + n ELSE 0)

\* Asked for -1 questions for a job naming both Python and React, the
\* template path returned three questions.
C23_Witness ==
    /\ oa_questions["returned"]
    /\ TemplatePath
    /\ oa_args["n"] = -1
    /\ Len(oa_questions["value"]) = 3


-----------------------------------------------------------------------------
(* Claims about the scoring results of a candidate *)

\* The screening results stored for a candidate.
ScreeningsOf(db, candidate_id) ==
    {r \in DOMAIN db["screening_results"] :
        Get(db["screening_results"][r], "candidate_id", None) = candidate_id}

\* The quick-access map of AI results, empty until the first application.
CandidatesAi(db) == IF "candidates_ai" \in DOMAIN db THEN db["candidates_ai"] ELSE <<>>

\* A score that differs from every score the model computes.
LaterScore == [ats_score |-> 101, highlights |-> <<>>]

\* C21: after any sequence of applications (with the other requests of the
\* hiring flow in between), at most one screening result carries a given
\* candidate id, the AI map is keyed by stored candidates, every candidate
\* with a screening result written by an upload has its AI entry with the
\* same score, and scoring a candidate again replaces its entry and adds none.
C21_OneScorePerCandidate ==
    /\ \A c \in DOMAIN DATABASE["candidates"] \cup
                {Get(DATABASE["screening_results"][r], "candidate_id", None) :
                    r \in DOMAIN DATABASE["screening_results"]} :
          Cardinality(ScreeningsOf(DATABASE, c)) <= 1
    /\ DOMAIN CandidatesAi(DATABASE) \subseteq DOMAIN DATABASE["candidates"]
    /\ \A r \in DOMAIN DATABASE["screening_results"] \ DOMAIN SeededDatabase["screening_results"] :
          LET result == DATABASE["screening_results"][r]
          IN  /\ result["candidate_id"] \in DOMAIN CandidatesAi(DATABASE)
              /\ CandidatesAi(DATABASE)[result["candidate_id"]]["ats_score"] = result["ats_score"]
    /\ \A c \in DOMAIN CandidatesAi(DATABASE) :
          LET again == attach_ai(DATABASE, c, LaterScore)
          IN  /\ DOMAIN again["candidates_ai"] = DOMAIN CandidatesAi(DATABASE)
              /\ again["candidates_ai"][c] = LaterScore
              /\ \A d \in DOMAIN CandidatesAi(DATABASE) \ {c} :
                    again["candidates_ai"][d] = CandidatesAi(DATABASE)[d]

\* Two candidates were scored, one of them by an upload, which also wrote a
\* screening result.
C21_Witness ==
    /\ Cardinality(DOMAIN CandidatesAi(DATABASE)) >= 2
    /\ \E r \in DOMAIN DATABASE["screening_results"] \ DOMAIN SeededDatabase["screening_results"] :
          /\ DATABASE["screening_results"][r]["candidate_id"] \in DOMAIN CandidatesAi(DATABASE)
          /\ \E c \in DOMAIN CandidatesAi(DATABASE) : ScreeningsOf(DATABASE, c) = {}


-----------------------------------------------------------------------------
(* Claims about the text an upload is scored on *)

\* The candidates stored by upload_cv, and those stored by apply_public and
\* scored.
Uploaded == {c \in ApiCandidates : "resume_url" \in DOMAIN DATABASE["candidates"][c]}
AppliedAndScored ==
    {c \in ApiCandidates \ Uploaded : c \in DOMAIN CandidatesAi(DATABASE)}

\* ats_score and highlights of an AI result.
ScoreOf(ai_result) == <<ai_result["ats_score"], ai_result["highlights"]>>

\* The score of a text by the heuristic, which the external model does not
\* change.
HeuristicScore(text) == ScoreOf(score_cv(text, GeminiUnavailable))

\* The text "Job Description:\n<description>\n\nCV Text:\n<cv text>".
DescriptionAndCv(description, text) ==
    <<"J","o","b"," ","D","e","s","c","r","i","p","t","i","o","n",":","\n">> \o description
      \o <<"\n","\n","C","V"," ","T","e","x","t",":","\n">> \o text

\* C24 (as stated): the score stored for an uploaded candidate is the score
\* of the extracted CV text alone.
C24_UploadScoresCvText ==
    \A c \in Uploaded :
        ScoreOf(CandidatesAi(DATABASE)[c]) = HeuristicScore(DATABASE["candidates"][c]["cv_text"])

\* C24, as the code has it: upload_cv scores the text made of the job's
\* description followed by the extracted CV text, and returns and stores that
\* score (in candidates_ai and in the screening result); apply_public scores
\* the submitted CV text alone.
C24_UploadScoresDescriptionAndCv ==
    /\ \A c \in Uploaded :
          LET cand == DATABASE["candidates"][c]
              scored == HeuristicScore(DescriptionAndCv(
                            DATABASE["jobs"][cand["job_post_id"]]["description"], cand["cv_text"]))
          IN  /\ ScoreOf(CandidatesAi(DATABASE)[c]) = scored
              /\ \A r \in ScreeningsOf(DATABASE, c) :
                    DATABASE["screening_results"][r]["ats_score"] = scored[1]
              /\ ScreeningsOf(DATABASE, c) # {}
    /\ \A c \in AppliedAndScored :
          ScoreOf(CandidatesAi(DATABASE)[c]) = HeuristicScore(DATABASE["candidates"][c]["cv_text"])
    /\ (request["op"] \in {"upload_cv", "apply_public"} /\ response["status"] = 200) =>
          response["body"]["ai"] = CandidatesAi(DATABASE)[response["body"]["candidate"]["id"]]

\* The same CV text was submitted through apply_public and through upload_cv
\* and received two different scores, the last answer being an upload's.
C24_Witness ==
    /\ request["op"] = "upload_cv"
    /\ response["status"] = 200
    /\ \E c \in AppliedAndScored, d \in Uploaded :
          /\ DATABASE["candidates"][c]["cv_text"] = DATABASE["candidates"][d]["cv_text"]
          /\ ScoreOf(CandidatesAi(DATABASE)[c]) # ScoreOf(CandidatesAi(DATABASE)[d])


-----------------------------------------------------------------------------
(* Claims about the life cycle of jobs and candidates *)

C29_CandidateStageLifecycle ==
    [][/\ DOMAIN DATABASE["candidates"] \subseteq DOMAIN DATABASE'["candidates"]
       /\ \A c \in DOMAIN DATABASE'["candidates"] :
            IF c \in DOMAIN DATABASE["candidates"]
              THEN /\ DATABASE'["candidates"][c]["stage"] # DATABASE["candidates"][c]["stage"]
                        => /\ request'["op"] = "schedule_oa"
                           /\ request'["candidate_id"] = c
                           /\ DATABASE'["candidates"][c]["stage"] = "ASSESSMENT_SENT"
                   /\ DATABASE["candidates"][c]["stage"] = "ASSESSMENT_SENT"
                        => DATABASE'["candidates"][c]["stage"] = "ASSESSMENT_SENT"
              ELSE /\ request'["op"] \in {"apply_public", "upload_cv"}
                   /\ DATABASE'["candidates"][c]["stage"] = "APPLIED"
       /\ \A c \in DOMAIN DATABASE'["candidates"] \ DOMAIN SeededDatabase["candidates"] :
            DATABASE'["candidates"][c]["stage"] \in {"APPLIED", "ASSESSMENT_SENT"}
      ]_vars

\* A candidate who applied was just sent an assessment and is in stage
\* ASSESSMENT_SENT, two assessments were scheduled in all, and another
\* candidate who applied is in stage APPLIED.
C29_Witness ==
    /\ request["op"] = "schedule_oa"
    /\ response["status"] = 200
    /\ request["candidate_id"] \in ApiCandidates
    /\ DATABASE["candidates"][request["candidate_id"]]["stage"] = "ASSESSMENT_SENT"
    /\ Cardinality(ApiAssessments) >= 2
    /\ \E d \in ApiCandidates : DATABASE["candidates"][d]["stage"] = "APPLIED"


-----------------------------------------------------------------------------
(* Claims about the analytics endpoints *)

AnalyticsOps == {"get_analytics_summary", "get_job_analytics", "get_hiring_funnel"}

\* C27: every step of an analytics endpoint, whatever it answers, leaves the
\* store as it was: the same collections, candidates_ai created or not as
\* before, with the same records.
C27_AnalyticsReadOnly ==
    [][request'["op"] \in AnalyticsOps =>
         /\ DOMAIN DATABASE' = DOMAIN DATABASE
         /\ \A collection \in DOMAIN DATABASE : DATABASE'[collection] = DATABASE[collection]
         /\ clock' = clock
      ]_vars

\* The summary was answered 200 over a store that holds AI results and an
\* application whose scoring failed.
C27_Witness ==
    /\ request["op"] = "get_analytics_summary"
    /\ response["status"] = 200
    /\ DOMAIN CandidatesAi(DATABASE) # {}
    /\ FailedApplications # {}


-----------------------------------------------------------------------------
(* Claims about the keys of the store *)

KeyedCollections ==
    {"users", "organizations", "jobs", "candidates", "screening_results",
     "assessments", "interviews"}

\* The records of a collection written since start-up.
WrittenSinceStartup(collection) ==
    {k \in DOMAIN DATABASE[collection] :
        \/ k \notin DOMAIN SeededDatabase[collection]
        \/ DATABASE[collection][k] # SeededDatabase[collection][k]}

\* C28: in every reachable state every record of users, organizations, jobs,
\* candidates, screening_results, assessments and interviews is stored under
\* the key that is the record's own id.
C28_KeyedById ==
    \A collection \in KeyedCollections :
        \A k \in DOMAIN DATABASE[collection] :
            /\ "id" \in DOMAIN DATABASE[collection][k]
            /\ DATABASE[collection][k]["id"] = k

\* The API wrote a user with its organization, a job it then activated, a
\* candidate by application and one by upload with its screening result, and
\* an assessment that moved a candidate to another stage.
C28_Witness ==
    /\ \A collection \in KeyedCollections \ {"interviews"} :
          WrittenSinceStartup(collection) \ DOMAIN SeededDatabase[collection] # {}
    /\ \E j \in WrittenSinceStartup("jobs") : DATABASE["jobs"][j]["status"] = "ACTIVE"
    /\ \E c \in WrittenSinceStartup("candidates") :
          DATABASE["candidates"][c]["stage"] = "ASSESSMENT_SENT"
    /\ Uploaded # {} /\ AppliedAndScored # {}


-----------------------------------------------------------------------------
(* Claims about the conversational agent *)

\* A lower-cased message names a word.
Mentions(message, word) ==
    \E i \in 1..Len(message) :
        /\ i + Len(word) - 1 <= Len(message)
        /\ lower(SubSeq(message, i, i + Len(word) - 1)) = word

IsGreeting(message) ==
    \/ Mentions(message, <<"h","e","l","l","o">>) \/ Mentions(message, <<"h","i">>) \/ Mentions(message, <<"h","e","y">>)
IsScheduling(message) ==
    Mentions(message, <<"s","c","h","e","d","u","l","e">>) \/ Mentions(message, <<"a","v","a","i","l","a","b","l","e">>)
IsFeedbackRequest(message) ==
    Mentions(message, <<"t","e","l","l"," ","m","e"," ","a","b","o","u","t">>) \/ Mentions(message, <<"f","e","e","d","b","a","c","k">>)

\* The agent answered the request with a reply.
AgentAnswered(req, resp) ==
    /\ req["op"] = "ai_agent_message"
    /\ resp["status"] = 200

\* C26: every answered message gets the greeting reply when it greets,
\* otherwise the scheduling reply when it asks for scheduling, otherwise the
\* feedback reply when it asks for feedback, otherwise the echo of the
\* message as it was sent; and a message answered again, in the same or in
\* another session and after whatever other message, gets the same reply.
C26_AgentPriority ==
    [][AgentAnswered(request', response') =>
         LET message == request'["payload"]["message"]
             reply == response'["body"]["reply"]
         IN  /\ IsGreeting(message) => reply = GreetingReply
             /\ (~ IsGreeting(message) /\ IsScheduling(message)) => reply = SchedulingReply
             /\ (~ IsGreeting(message) /\ ~ IsScheduling(message) /\ IsFeedbackRequest(message))
                   => reply = FeedbackReply
             /\ (~ IsGreeting(message) /\ ~ IsScheduling(message) /\ ~ IsFeedbackRequest(message))
                   => /\ Len(reply) = 3
                      /\ reply[2] = message
             /\ (AgentAnswered(request, response)
                   /\ request["payload"]["message"] = message)
                   => response["body"]["reply"] = reply
      ]_vars

\* A message that asks for feedback and for scheduling got the scheduling
\* reply.
C26_Witness ==
    /\ AgentAnswered(request, response)
    /\ IsFeedbackRequest(request["payload"]["message"])
    /\ IsScheduling(request["payload"]["message"])
    /\ ~ IsGreeting(request["payload"]["message"])
    /\ response["body"]["reply"] = SchedulingReply


====
